---------------------------- MODULE Spec2Model ----------------------------
(***************************************************************************)
(* Model of the merge layer of the report pipeline                         *)
(* (src/src/step2/merge_layer.py): area normalisation, statement           *)
(* projection, SequenceMatcher similarity, de-duplication, conflict        *)
(* detection, merge_and_dedupe, and the file-level entry point             *)
(* run_merge_layer with load_facts_docs.                                   *)
(*                                                                         *)
(* Text is modelled as a sequence of Unicode code points (ASCII range), so *)
(* that case folding, the regular expressions' character classes and the   *)
(* lexicographic order of sorted() are computed as Python computes them.   *)
(* The tri-state enumerations are TLA+ strings; EnumText gives their text. *)
(***************************************************************************)
EXTENDS Integers, Sequences, FiniteSets, TLC

VARIABLES pc, call, ret, frame, world

vars == <<pc, call, ret, frame, world>>

(***************************************************************************)
(* Bounds of the model.                                                    *)
(***************************************************************************)
\* longest fact list handed to _dedupe_facts directly
MaxDedupeFacts == 4
\* longest facts list of an inspection document
MaxInspectionFacts == 2
\* longest facts list of a thermal document
MaxThermalFacts == 2
\* longest area label over AreaChars handed to _normalize_area directly
MaxAreaLen == 3

(***************************************************************************)
(* Characters and the character classes of the regular expressions.        *)
(***************************************************************************)
\* str.isspace() / \s on ASCII: \t \n \v \f \r, \x1c-\x1f and the space
IsSpace(c) == (c >= 9 /\ c <= 13) \/ (c >= 28 /\ c <= 31) \/ c = 32

\* _CTRL_RE = [\x00-\x08\x0b\x0c\x0e-\x1f]
IsCtrl(c) == (c >= 0 /\ c <= 8) \/ c = 11 \/ c = 12 \/ (c >= 14 /\ c <= 31)

\* \w on ASCII: letters, digits and the underscore
IsWord(c) ==
    (c >= 48 /\ c <= 57) \/ (c >= 65 /\ c <= 90) \/ (c >= 97 /\ c <= 122) \/ c = 95

\* _PUNCT_RE = [^\w\s]
IsPunct(c) == ~IsWord(c) /\ ~IsSpace(c)

\* str.lower() / str.casefold() of one ASCII character
LowerChar(c) == IF c >= 65 /\ c <= 90 THEN c + 32 ELSE c

\* the positions 1..n as a sequence
Positions(n) == [i \in 1..n |-> i]

\* the string whose i-th character is Op(s[i])
MapChars(s, Op(_)) == [i \in 1..Len(s) |-> Op(s[i])] \o <<>>

\* str.lower() of a string
Lower(s) == MapChars(s, LowerChar)

\* str.casefold() of a string
Casefold(s) == MapChars(s, LowerChar)

\* str.strip(): from the first to the last character that is not whitespace
Strip(s) ==
    LET inked == SelectSeq(Positions(Len(s)), LAMBDA i : ~IsSpace(s[i]))
    IN  IF inked = <<>> THEN <<>> ELSE SubSeq(s, inked[1], inked[Len(inked)])

\* _CTRL_RE.sub(" ", s)
CtrlSub(s) == MapChars(s, LAMBDA c : IF IsCtrl(c) THEN 32 ELSE c)

\* _PUNCT_RE.sub(" ", s)
PunctSub(s) == MapChars(s, LAMBDA c : IF IsPunct(c) THEN 32 ELSE c)

\* _WS_RE.sub(" ", s): every maximal run of whitespace becomes one space
WsSub(s) ==
    LET first == SelectSeq(Positions(Len(s)),
                           LAMBDA i : ~IsSpace(s[i]) \/ i = 1 \/ ~IsSpace(s[i - 1]))
    IN  MapChars(first, LAMBDA i : IF IsSpace(s[i]) THEN 32 ELSE s[i])

\* a in b for strings: a occurs in b as a contiguous substring
Contains(b, a) ==
    \/ a = <<>>
    \/ \E k \in 1..(Len(b) - Len(a) + 1) :
          b[k] = a[1] /\ SubSeq(b, k, k + Len(a) - 1) = a

\* a < b for strings: lexicographic order on code points
RECURSIVE StrLess(_, _)
StrLess(a, b) ==
    IF b = <<>> THEN FALSE
    ELSE IF a = <<>> THEN TRUE
    ELSE IF Head(a) # Head(b) THEN Head(a) < Head(b)
    ELSE StrLess(Tail(a), Tail(b))

\* sep.join(parts)
RECURSIVE Join(_, _)
Join(sep, parts) ==
    IF parts = <<>> THEN <<>>
    ELSE IF Len(parts) = 1 THEN parts[1]
    ELSE parts[1] \o sep \o Join(sep, Tail(parts))

(***************************************************************************)
(* Text constants of the source.                                           *)
(***************************************************************************)
\* "Not Available"
NotAvailable == <<78,111,116,32,65,118,97,105,108,97,98,108,101>>
\* "not available"
NotAvailableLower == <<110,111,116,32,97,118,97,105,108,97,98,108,101>>
\* "not_available"
NotAvailableKey == <<110,111,116,95,97,118,97,105,108,97,98,108,101>>
\* " | "
PartSep == <<32,124,32>>
\* "moisture_signs="
MoistureSignsPrefix == <<109,111,105,115,116,117,114,101,95,115,105,103,110,115,61>>
\* "thermal_anomaly="
ThermalAnomalyPrefix == <<116,104,101,114,109,97,108,95,97,110,111,109,97,108,121,61>>
\* "temps="
TempsPrefix == <<116,101,109,112,115,61>>
\* "; "
TempsSep == <<59,32>>

\* the text of a value of Literal["yes", "no", "not_mentioned"]
EnumText(v) ==
    CASE v = "yes" -> <<121,101,115>>
      [] v = "no" -> <<110,111>>
      [] v = "not_mentioned" -> <<110,111,116,95,109,101,110,116,105,111,110,101,100>>

(***************************************************************************)
(* _normalize_area and _normalize_text_for_match.                          *)
(***************************************************************************)
_normalize_area(area) ==
    LET stripped == Strip(area)
    IN  IF stripped = <<>> \/ Lower(stripped) = NotAvailableLower
        THEN NotAvailableKey
        ELSE Casefold(WsSub(CtrlSub(stripped)))

_normalize_text_for_match(text) ==
    LET stripped == Strip(text)
    IN  IF stripped = <<>> \/ Lower(stripped) = NotAvailableLower
        THEN <<>>
        ELSE Strip(WsSub(PunctSub(Casefold(CtrlSub(stripped)))))

(***************************************************************************)
(* difflib.SequenceMatcher(None, a, b).ratio(), with no junk (the autojunk *)
(* heuristic needs len(b) >= 200).  Positions are 1-based; a range         *)
(* alo..ahi is inclusive here (Python's a[alo-1:ahi]).                     *)
(***************************************************************************)
\* length of the common run of a and b starting at a[i], b[j], inside the range
RECURSIVE RunLen(_, _, _, _, _, _)
RunLen(a, b, i, j, ahi, bhi) ==
    IF i <= ahi /\ j <= bhi /\ a[i] = b[j]
    THEN 1 + RunLen(a, b, i + 1, j + 1, ahi, bhi)
    ELSE 0

\* find_longest_match: <<i, j, k>> with k maximal, then i minimal, then j minimal
find_longest_match(a, b, alo, ahi, blo, bhi) ==
    LET starts == { p \in (alo..ahi) \X (blo..bhi) :
                      /\ a[p[1]] = b[p[2]]
                      /\ \/ p[1] = alo
                         \/ p[2] = blo
                         \/ a[p[1] - 1] # b[p[2] - 1] }
        blocks == { <<p[1], p[2], RunLen(a, b, p[1], p[2], ahi, bhi)>> : p \in starts }
    IN  IF blocks = {} THEN <<alo, blo, 0>>
        ELSE CHOOSE m \in blocks :
               \A o \in blocks :
                 \/ m[3] > o[3]
                 \/ m[3] = o[3] /\ m[1] < o[1]
                 \/ m[3] = o[3] /\ m[1] = o[1] /\ m[2] <= o[2]

\* sum of the sizes of get_matching_blocks() over the given ranges
RECURSIVE MatchedChars(_, _, _, _, _, _)
MatchedChars(a, b, alo, ahi, blo, bhi) ==
    IF alo > ahi \/ blo > bhi THEN 0
    ELSE LET m == find_longest_match(a, b, alo, ahi, blo, bhi)
         IN  IF m[3] = 0 THEN 0
             ELSE m[3]
                  + MatchedChars(a, b, alo, m[1] - 1, blo, m[2] - 1)
                  + MatchedChars(a, b, m[1] + m[3], ahi, m[2] + m[3], bhi)

\* ratio() = 2.0 * matches / (len(a) + len(b)), kept as the fraction <<2*M, T>>
Ratio(a, b) == <<2 * MatchedChars(a, b, 1, Len(a), 1, Len(b)), Len(a) + Len(b)>>

\* _similar(a, b) as a fraction <<numerator, denominator>>
_similar(a, b) ==
    IF a = <<>> /\ b = <<>> THEN <<1, 1>>
    ELSE IF a = <<>> \/ b = <<>> THEN <<0, 1>>
    ELSE Ratio(a, b)

\* the comparison with a tolerance of one tenth
AtLeastWithSlack(ratio, threshold) == ratio[1] * 100 >= (threshold - 10) * ratio[2]

\* ratio >= cfg.similarity_threshold, the threshold given in hundredths
AtLeast(ratio, threshold) == ratio[1] * 100 >= threshold * ratio[2]

(***************************************************************************)
(* The statement projectors.                                               *)
(***************************************************************************)
\* a Python str is truthy and differs from the "Not Available" sentinel
Informative(text) == text # <<>> /\ text # NotAvailable

_inspection_statement(f) ==
    LET parts ==
          (IF Informative(f.observation) THEN <<f.observation>> ELSE <<>>)
          \o (IF Informative(f.visible_issue) THEN <<f.visible_issue>> ELSE <<>>)
          \o (IF f.moisture_signs # "not_mentioned"
              THEN <<MoistureSignsPrefix \o EnumText(f.moisture_signs)>> ELSE <<>>)
          \o (IF Informative(f.notes) THEN <<f.notes>> ELSE <<>>)
    IN  IF parts # <<>> THEN Join(PartSep, parts) ELSE NotAvailable

\* the thermal projector with thermal_anomaly ahead of suspected_issue
ThermalStatementAnomalyFirst(f) ==
    LET readings == f.temperature_readings
        shown == SelectSeq(readings,
                           LAMBDA r : Informative(r.label) \/ Informative(r.value))
        temps == [i \in 1..Len(shown) |-> shown[i].label \o <<58>> \o shown[i].value]
        parts ==
          (IF f.thermal_anomaly # "not_mentioned"
           THEN <<ThermalAnomalyPrefix \o EnumText(f.thermal_anomaly)>> ELSE <<>>)
          \o (IF Informative(f.suspected_issue) THEN <<f.suspected_issue>> ELSE <<>>)
          \o (IF temps # <<>> THEN <<TempsPrefix \o Join(TempsSep, temps)>> ELSE <<>>)
          \o (IF Informative(f.notes) THEN <<f.notes>> ELSE <<>>)
    IN  IF parts # <<>> THEN Join(PartSep, parts) ELSE NotAvailable

_thermal_statement(f) ==
    LET readings == f.temperature_readings
        shown == SelectSeq(readings,
                           LAMBDA r : Informative(r.label) \/ Informative(r.value))
        temps == [i \in 1..Len(shown) |-> shown[i].label \o <<58>> \o shown[i].value]
        parts ==
          (IF Informative(f.suspected_issue) THEN <<f.suspected_issue>> ELSE <<>>)
          \o (IF f.thermal_anomaly # "not_mentioned"
              THEN <<ThermalAnomalyPrefix \o EnumText(f.thermal_anomaly)>> ELSE <<>>)
          \o (IF temps # <<>> THEN <<TempsPrefix \o Join(TempsSep, temps)>> ELSE <<>>)
          \o (IF Informative(f.notes) THEN <<f.notes>> ELSE <<>>)
    IN  IF parts # <<>> THEN Join(PartSep, parts) ELSE NotAvailable

\* statement_fn(f) for the two statement functions _dedupe_facts is called with
StatementOf(kind, f) ==
    IF kind = "inspection" THEN _inspection_statement(f) ELSE _thermal_statement(f)

(***************************************************************************)
(* The keyword tables and _mentions_any.                                  *)
(***************************************************************************)
_NEG_MOISTURE_PATTERNS ==
    { <<110,111,32,100,97,109,112>>,                      \* "no damp"
      <<110,111,32,109,111,105,115,116,117,114,101>>,     \* "no moisture"
      <<110,111,32,108,101,97,107>>,                      \* "no leak"
      <<110,111,32,108,101,97,107,97,103,101>>,           \* "no leakage"
      <<110,111,32,119,97,116,101,114>>,                  \* "no water"
      <<100,114,121>>,                                    \* "dry"
      <<110,111,116,32,100,97,109,112>>,                  \* "not damp"
      <<110,111,116,32,119,101,116>>,                     \* "not wet"
      \* "no sign of moisture"
      <<110,111,32,115,105,103,110,32,111,102,32,109,111,105,115,116,117,114,101>> }

_POS_MOISTURE_PATTERNS ==
    { <<109,111,105,115,116,117,114,101>>,                \* "moisture"
      <<100,97,109,112>>,                                 \* "damp"
      <<119,101,116>>,                                    \* "wet"
      <<108,101,97,107>>,                                 \* "leak"
      <<108,101,97,107,97,103,101>>,                      \* "leakage"
      \* "water intrusion"
      <<119,97,116,101,114,32,105,110,116,114,117,115,105,111,110>>,
      <<119,97,116,101,114,32,105,110,103,114,101,115,115>>,  \* "water ingress"
      <<99,111,110,100,101,110,115,97,116,105,111,110>> }     \* "condensation"

_mentions_any(text, patterns) ==
    LET norm == _normalize_text_for_match(text)
    IN  \E p \in patterns : Contains(norm, p)

(***************************************************************************)
(* The inputs the calls are made with.                                     *)
(***************************************************************************)
Evidence(page) == [page_numbers |-> <<page>>, quote |-> NotAvailable]

InspectionFact(area, observation, moisture_signs, page) ==
    [ area |-> area,
      observation |-> observation,
      visible_issue |-> NotAvailable,
      moisture_signs |-> moisture_signs,
      measurements |-> <<>>,
      notes |-> NotAvailable,
      evidence |-> Evidence(page) ]

ThermalFact(area, thermal_anomaly, readings, suspected_issue, page) ==
    [ area |-> area,
      thermal_anomaly |-> thermal_anomaly,
      temperature_readings |-> readings,
      suspected_issue |-> suspected_issue,
      notes |-> NotAvailable,
      evidence |-> Evidence(page) ]

InspectionFactsDoc(facts) ==
    [ source |-> "inspection_report", facts |-> facts,
      missing_or_unclear_information |-> <<>> ]

ThermalFactsDoc(facts) ==
    [ source |-> "thermal_report", facts |-> facts,
      missing_or_unclear_information |-> <<>> ]

\* area labels: "Hall", " hall", "Bath"
AreaHall == <<72,97,108,108>>
AreaHallLower == <<32,104,97,108,108>>
AreaBath == <<66,97,116,104>>
AreaKitchen == <<75,105,116,99,104,101,110>>

\* "no damp", "no damps", "no dampss", "crack", "leak"
TxtNoDamp == <<110,111,32,100,97,109,112>>
TxtNoDamps == <<110,111,32,100,97,109,112,115>>
TxtNoDampss == <<110,111,32,100,97,109,112,115,115>>
TxtNoDampsy == <<110,111,32,100,97,109,112,115,121>>
TxtCrack == <<99,114,97,99,107>>
TxtLeak == <<108,101,97,107>>
\* "volcano"
TxtVolcano == <<118,111,108,99,97,110,111>>
\* "hairline crack"
TxtHairlineCrack == <<104,97,105,114,108,105,110,101,32,99,114,97,99,107>>
\* "aaaba" and "abaab"
TxtAaaba == <<97,97,97,98,97>>
TxtAbaab == <<97,98,97,97,98>>
\* "visible mold near sink", "visible mould near the sink"
TxtMold == <<118,105,115,105,98,108,101,32,109,111,108,100,32,110,101,97,114,32,115,105,110,107>>
TxtMould == <<118,105,115,105,98,108,101,32,109,111,117,108,100,32,110,101,97,114,32,116,104,101,32,115,105,110,107>>

\* one temperature reading, "Hot": "wet"
ReadingHotWet == [label |-> <<72,111,116>>, value |-> <<119,101,116>>]

InspHallNoDamp == InspectionFact(AreaHall, TxtNoDamp, "not_mentioned", 1)
InspHallNoDamps == InspectionFact(AreaHallLower, TxtNoDamps, "not_mentioned", 2)
InspBathNoDamp == InspectionFact(AreaBath, TxtNoDamp, "not_mentioned", 3)
InspHallSignsNo == InspectionFact(AreaHall, NotAvailable, "no", 4)
InspBlank == InspectionFact(NotAvailable, NotAvailable, "not_mentioned", 5)
InspHallCrackYes == InspectionFact(AreaHall, TxtCrack, "yes", 6)
InspHallNoDampss == InspectionFact(AreaHall, TxtNoDampss, "not_mentioned", 7)
InspHallNoDampsy == InspectionFact(AreaHall, TxtNoDampsy, "not_mentioned", 8)
InspKitchenMold == InspectionFact(AreaKitchen, TxtMold, "not_mentioned", 21)
InspKitchenMould == InspectionFact(AreaKitchen, TxtMould, "not_mentioned", 22)
InspUnnamedCrack == InspectionFact(NotAvailableLower, TxtCrack, "yes", 23)
InspHallHairlineYes == InspectionFact(AreaHall, TxtHairlineCrack, "yes", 26)
InspHallHairlineNo == InspectionFact(AreaHall, TxtHairlineCrack, "no", 27)
InspHallNoDampYes == InspectionFact(AreaHall, TxtNoDamp, "yes", 28)
InspHallVolcanoYes == InspectionFact(AreaHall, TxtVolcano, "yes", 29)
InspHallAaaba == InspectionFact(AreaHall, TxtAaaba, "not_mentioned", 24)
InspHallAbaab == InspectionFact(AreaHall, TxtAbaab, "not_mentioned", 25)

ThermHallLeakYes == ThermalFact(AreaHall, "yes", <<>>, TxtLeak, 11)
ThermHallWetYes == ThermalFact(AreaHallLower, "yes", <<ReadingHotWet>>, NotAvailable, 12)
ThermBathLeakYes == ThermalFact(AreaBath, "yes", <<>>, TxtLeak, 13)
ThermHallLeakNo == ThermalFact(AreaHall, "no", <<>>, TxtLeak, 14)
ThermHallNoDamp == ThermalFact(AreaHall, "not_mentioned", <<>>, TxtNoDamp, 15)
ThermBlank == ThermalFact(<<>>, "not_mentioned", <<>>, NotAvailable, 16)

\* the facts the documents handed to merge_and_dedupe are drawn from
InspectionPool ==
    { InspHallNoDamp, InspHallNoDamps, InspBathNoDamp, InspHallSignsNo,
      InspBlank, InspHallCrackYes }

ThermalPool ==
    { ThermHallLeakYes, ThermHallWetYes, ThermBathLeakYes, ThermHallLeakNo }

\* further inspection documents handed to merge_and_dedupe
ScenarioInspectionFacts ==
    { <<InspKitchenMold, InspKitchenMould>>,
      <<InspUnnamedCrack>>,
      <<InspHallHairlineYes, InspHallHairlineNo>>,
      <<InspHallNoDampYes, InspHallVolcanoYes>> }

\* further thermal documents handed to merge_and_dedupe
ScenarioThermalFacts ==
    { <<ThermHallNoDamp>> }

\* the facts the lists handed to _dedupe_facts directly are drawn from
DedupePool(kind) ==
    IF kind = "inspection"
    THEN { InspHallNoDamp, InspHallNoDamps, InspHallNoDampss, InspHallNoDampsy,
           InspBlank }
    ELSE { ThermHallLeakYes, ThermBathLeakYes, ThermHallLeakNo, ThermBlank }

\* further lists handed to _dedupe_facts directly
ScenarioDedupeFacts(kind) ==
    IF kind = "inspection"
    THEN { <<InspHallAaaba, InspHallAbaab>>, <<InspHallAbaab, InspHallAaaba>> }
    ELSE {}

\* the facts handed to the statement projectors directly: every text field empty,
\* the sentinel or a text of its own
TxtHot == <<72,111,116>>
TxtWet == <<119,101,116>>
ReadingBlank == [label |-> NotAvailable, value |-> NotAvailable]
ReadingHotOnly == [label |-> TxtHot, value |-> NotAvailable]
ReadingWetOnly == [label |-> <<>>, value |-> TxtWet]

FieldTexts(text) == { <<>>, NotAvailable, text }

StatementInspectionFacts ==
    { [ InspectionFact(AreaHall, o, m, 31) EXCEPT !.visible_issue = v, !.notes = n ] :
        o \in FieldTexts(TxtCrack), v \in FieldTexts(TxtLeak),
        m \in {"yes", "no", "not_mentioned"}, n \in FieldTexts(TxtNoDamp) }

StatementThermalFacts ==
    { [ ThermalFact(AreaHall, a, r, s, 32) EXCEPT !.notes = n ] :
        s \in FieldTexts(TxtLeak), a \in {"yes", "no", "not_mentioned"},
        r \in { <<>>, <<ReadingBlank>>, <<ReadingHotWet>>,
                <<ReadingHotOnly, ReadingBlank, ReadingWetOnly>> },
        n \in FieldTexts(TxtNoDamp) }

\* the normalised statements handed to _similar directly
SimilarTexts == { <<>>, TxtNoDamp, TxtNoDamps, TxtLeak, TxtAaaba, TxtAbaab }

\* the area labels handed to _normalize_area directly: all short labels over a
\* space, a tab, the control character \x01, "a", "A" and "b", and the written ones
AreaChars == {32, 9, 1, 97, 65, 98}

WrittenAreas ==
    { NotAvailable, NotAvailableLower, NotAvailableKey,
      <<32,78,79,84,32,65,86,65,73,76,65,66,76,69,32>>, <<78,111,116,95,65,118,97,105,108,97,98,108,101>>,
      AreaHall, AreaHallLower, AreaKitchen,
      <<75,105,116,1,99,104,101,110>>, <<75,105,116,99,104,101,110,1>> }

\* similarity thresholds, in hundredths
MergeThresholds == {80, 92}
DedupeThresholds == {0, 80, 92, 94, 100}

\* all sequences over S of length at most n
SeqUpTo(S, n) == UNION { [1..k -> S] : k \in 0..n }

AreaLabels == SeqUpTo(AreaChars, MaxAreaLen) \cup WrittenAreas

(***************************************************************************)
(* The texts the inputs above can produce are normalised, searched for    *)
(* keywords and compared once, by the operators above; the calls below     *)
(* look the results up (and compute them for any other text).              *)
(***************************************************************************)
PoolStatements ==
    { _inspection_statement(f) : f \in InspectionPool \cup DedupePool("inspection") }
    \cup { _thermal_statement(f) : f \in ThermalPool \cup DedupePool("thermal") }

PoolTexts ==
    PoolStatements \cup { f.suspected_issue : f \in ThermalPool \cup DedupePool("thermal") }

\* (f @@ <<>> is f, held as an explicit table)
SigMemo == [text \in PoolTexts |-> _normalize_text_for_match(text)] @@ <<>>

\* _normalize_text_for_match(text)
Sig(text) ==
    IF text \in PoolTexts THEN SigMemo[text] ELSE _normalize_text_for_match(text)

NegMentioning == { text \in PoolTexts : _mentions_any(text, _NEG_MOISTURE_PATTERNS) }

PosMentioning == { text \in PoolTexts : _mentions_any(text, _POS_MOISTURE_PATTERNS) }

\* _mentions_any(text, _NEG_MOISTURE_PATTERNS)
MentionsNegMoisture(text) ==
    IF text \in PoolTexts THEN text \in NegMentioning
    ELSE _mentions_any(text, _NEG_MOISTURE_PATTERNS)

\* _mentions_any(text, _POS_MOISTURE_PATTERNS)
MentionsPosMoisture(text) ==
    IF text \in PoolTexts THEN text \in PosMentioning
    ELSE _mentions_any(text, _POS_MOISTURE_PATTERNS)

PoolAreas ==
    { f.area : f \in InspectionPool \cup DedupePool("inspection") }
    \cup { f.area : f \in ThermalPool \cup DedupePool("thermal") }

KeyMemo == [area \in PoolAreas |-> _normalize_area(area)] @@ <<>>

\* _normalize_area(area)
AreaKey(area) ==
    IF area \in PoolAreas THEN KeyMemo[area] ELSE _normalize_area(area)

PoolSigs == { SigMemo[text] : text \in PoolStatements } \ {<<>>}

SimilarMemo == [p \in PoolSigs \X PoolSigs |-> _similar(p[1], p[2])] @@ <<>>

\* _similar(a, b)
Similar(a, b) ==
    IF a \in PoolSigs /\ b \in PoolSigs THEN SimilarMemo[<<a, b>>] ELSE _similar(a, b)

\* the facts of the inputs above, by statement_fn
PoolFacts(kind) ==
    IF kind = "inspection" THEN InspectionPool \cup DedupePool("inspection")
    ELSE ThermalPool \cup DedupePool("thermal")

StatementSigMemo ==
    [kind \in {"inspection", "thermal"} |->
        [f \in PoolFacts(kind) |-> Sig(StatementOf(kind, f))] @@ <<>>] @@ <<>>

\* _normalize_text_for_match(statement_fn(f))
StatementSig(kind, f) ==
    IF f \in PoolFacts(kind) THEN StatementSigMemo[kind][f] ELSE Sig(StatementOf(kind, f))

(***************************************************************************)
(* _dedupe_facts.                                                          *)
(***************************************************************************)
\* the inner loop without the skip of empty kept statements
IsDupOfKeptNoSkip(sig, kept_sigs, threshold) ==
    \E k \in 1..Len(kept_sigs) :
        \/ sig = kept_sigs[k]
        \/ AtLeast(Similar(sig, kept_sigs[k]), threshold)

\* the inner loop over kept_sigs: is the candidate a duplicate of a kept fact
IsDupOfKept(sig, kept_sigs, threshold) ==
    \E k \in 1..Len(kept_sigs) :
        /\ kept_sigs[k] # <<>>
        /\ \/ sig = kept_sigs[k]
           \/ AtLeast(Similar(sig, kept_sigs[k]), threshold)

\* an iteration that compares the candidate with the fact visited before it only
DedupeStepAgainstPrevious(state, f, kind, threshold) ==
    LET kept == state[1]
        kept_sigs == state[2]
        sig == StatementSig(kind, f)
    IN  IF sig # <<>> /\ IsDupOfKept(sig, kept_sigs, threshold)
        THEN <<kept, <<sig>> >>
        ELSE <<Append(kept, f), <<sig>> >>

\* an iteration that remembers the statement of a discarded fact as well
DedupeStepAgainstSeen(state, f, kind, threshold) ==
    LET kept == state[1]
        kept_sigs == state[2]
        sig == StatementSig(kind, f)
    IN  IF sig # <<>> /\ IsDupOfKept(sig, kept_sigs, threshold)
        THEN <<kept, Append(kept_sigs, sig)>>
        ELSE <<Append(kept, f), Append(kept_sigs, sig)>>

\* one iteration of the outer loop: <<kept, kept_sigs>> after visiting f
DedupeStep(state, f, kind, threshold) ==
    LET kept == state[1]
        kept_sigs == state[2]
        sig == StatementSig(kind, f)
    IN  IF sig = <<>>
        THEN <<Append(kept, f), Append(kept_sigs, sig)>>
        ELSE IF IsDupOfKept(sig, kept_sigs, threshold)
             THEN state
             ELSE <<Append(kept, f), Append(kept_sigs, sig)>>

RECURSIVE DedupeLoop(_, _, _, _)
DedupeLoop(state, facts, kind, threshold) ==
    IF facts = <<>> THEN state
    ELSE DedupeLoop(DedupeStep(state, Head(facts), kind, threshold),
                    Tail(facts), kind, threshold)

\* the scan run from the last fact to the first: the last occurrence wins
DedupeKeepLast(facts, kind, threshold) ==
    LET Reverse(s) == [i \in 1..Len(s) |-> s[Len(s) + 1 - i]] \o <<>>
    IN  Reverse(DedupeLoop(<< <<>>, <<>> >>, Reverse(facts), kind, threshold)[1])

_dedupe_facts(facts, kind, threshold) ==
    DedupeLoop(<< <<>>, <<>> >>, facts, kind, threshold)[1]

(***************************************************************************)
(* Conflict detection.                                                     *)
(***************************************************************************)
\* the keyword search left out for a fact whose field says "yes"
InspectionNoMoistureUnlessYes(f) ==
    IF f.moisture_signs = "no" THEN TRUE
    ELSE IF f.moisture_signs = "yes" THEN FALSE
    ELSE MentionsNegMoisture(_inspection_statement(f))

\* the explicit field alone, without the keyword search
InspectionFieldOnly(f) == f.moisture_signs = "no"

_inspection_indicates_no_moisture(f) ==
    IF f.moisture_signs = "no" THEN TRUE
    ELSE MentionsNegMoisture(_inspection_statement(f))

\* the keyword search alone, without the thermal_anomaly test
ThermalKeywordOnly(f) == MentionsPosMoisture(_thermal_statement(f))

_thermal_indicates_moisture_anomaly(f) ==
    IF f.thermal_anomaly = "yes"
       /\ MentionsPosMoisture(f.suspected_issue)
    THEN TRUE
    ELSE /\ MentionsPosMoisture(_thermal_statement(f))
         /\ f.thermal_anomaly = "yes"

\* MergeConflict(...) as built in the inner loop
\* a MergeConflict with the two Evidence records exchanged
MergeConflictSwapped(inf, thf) ==
    [ type |-> "inspection_no_moisture_vs_thermal_moisture_anomaly",
      inspection_statement |-> _inspection_statement(inf),
      thermal_statement |-> _thermal_statement(thf),
      inspection_evidence |-> thf.evidence,
      thermal_evidence |-> inf.evidence,
      conflict_detected |-> TRUE ]

MergeConflict(inf, thf) ==
    [ type |-> "inspection_no_moisture_vs_thermal_moisture_anomaly",
      inspection_statement |-> _inspection_statement(inf),
      thermal_statement |-> _thermal_statement(thf),
      inspection_evidence |-> inf.evidence,
      thermal_evidence |-> thf.evidence,
      conflict_detected |-> TRUE ]

\* the inner loop leaving at its first match
RECURSIVE ThermalLoopFirstMatch(_, _)
ThermalLoopFirstMatch(inf, thermal_facts) ==
    IF thermal_facts = <<>> THEN <<>>
    ELSE IF _thermal_indicates_moisture_anomaly(Head(thermal_facts))
         THEN <<MergeConflict(inf, Head(thermal_facts))>>
         ELSE ThermalLoopFirstMatch(inf, Tail(thermal_facts))

\* the inner loop: the conflicts one inspection fact adds
RECURSIVE ThermalLoop(_, _)
ThermalLoop(inf, thermal_facts) ==
    IF thermal_facts = <<>> THEN <<>>
    ELSE (IF _thermal_indicates_moisture_anomaly(Head(thermal_facts))
          THEN <<MergeConflict(inf, Head(thermal_facts))>> ELSE <<>>)
         \o ThermalLoop(inf, Tail(thermal_facts))

\* the outer loop over the inspection facts of an entry
RECURSIVE ConflictLoop(_, _)
ConflictLoop(inspection_facts, thermal_facts) ==
    IF inspection_facts = <<>> THEN <<>>
    ELSE (IF _inspection_indicates_no_moisture(Head(inspection_facts))
          THEN ThermalLoop(Head(inspection_facts), thermal_facts) ELSE <<>>)
         \o ConflictLoop(Tail(inspection_facts), thermal_facts)

(***************************************************************************)
(* merge_and_dedupe.  area_map is a function from area keys to entries.    *)
(* An absent document (None) is the empty set, a present one {doc}.        *)
(***************************************************************************)
MergedAreaEntry(display) ==
    [ area |-> display,
      inspection_facts |-> <<>>,
      thermal_facts |-> <<>>,
      conflicts |-> <<>>,
      conflict_detected |-> FALSE ]

\* the display label without the strip
DisplayOfUnstripped(area_raw) ==
    IF area_raw = <<>> \/ Lower(area_raw) = NotAvailableLower THEN NotAvailable ELSE area_raw

\* the display label ensure_area gives a new key
DisplayOf(area_raw) ==
    LET display == IF Strip(area_raw) # <<>> THEN Strip(area_raw) ELSE NotAvailable
    IN  IF Lower(display) = NotAvailableLower THEN NotAvailable ELSE display

\* ensure_area with the entries held under their display labels
EnsureAreaByDisplay(area_map, area_raw) ==
    LET key == DisplayOf(area_raw)
    IN  IF key \notin DOMAIN area_map
        THEN area_map @@ (key :> MergedAreaEntry(DisplayOf(area_raw)))
        ELSE area_map

\* ensure_area without its "key not in area_map" test: the entry is made anew
EnsureAreaAlwaysNew(area_map, area_raw) ==
    (AreaKey(area_raw) :> MergedAreaEntry(DisplayOf(area_raw))) @@ area_map

\* ensure_area: area_map after the call (the entry is area_map[key])
ensure_area(area_map, area_raw) ==
    LET key == AreaKey(area_raw)
    IN  IF key \notin DOMAIN area_map
        THEN area_map @@ (key :> MergedAreaEntry(DisplayOf(area_raw)))
        ELSE area_map

\* ensure_area(f.area).inspection_facts.append(f)
AddInspectionFact(area_map, f) ==
    LET m == ensure_area(area_map, f.area)
    IN  [m EXCEPT ![AreaKey(f.area)].inspection_facts = Append(@, f)]

\* the append reaching one thermal_facts list shared by all entries
AddThermalFactToAll(area_map, f) ==
    LET m == ensure_area(area_map, f.area)
    IN  [k \in DOMAIN m |-> [m[k] EXCEPT !.thermal_facts = Append(@, f)]]

\* ensure_area(f.area).thermal_facts.append(f)
AddThermalFact(area_map, f) ==
    LET m == ensure_area(area_map, f.area)
    IN  [m EXCEPT ![AreaKey(f.area)].thermal_facts = Append(@, f)]

RECURSIVE GroupInspection(_, _)
GroupInspection(area_map, facts) ==
    IF facts = <<>> THEN area_map
    ELSE GroupInspection(AddInspectionFact(area_map, Head(facts)), Tail(facts))

RECURSIVE GroupThermal(_, _)
GroupThermal(area_map, facts) ==
    IF facts = <<>> THEN area_map
    ELSE GroupThermal(AddThermalFact(area_map, Head(facts)), Tail(facts))

\* the facts of an optional document: none when the document is None
FactsOf(doc) == IF doc # {} THEN (CHOOSE d \in doc : TRUE).facts ELSE <<>>

\* area_map after the two grouping loops
GroupFacts(inspection, thermal) ==
    GroupThermal(GroupInspection(<<>>, FactsOf(inspection)), FactsOf(thermal))

\* sorted(keys, reverse=True)
RECURSIVE SortedKeysDescending(_)
SortedKeysDescending(keys) ==
    IF keys = {} THEN <<>>
    ELSE LET greatest == CHOOSE k \in keys : \A o \in keys \ {k} : StrLess(o, k)
         IN  <<greatest>> \o SortedKeysDescending(keys \ {greatest})

\* sorted(keys)
RECURSIVE SortedKeys(_)
SortedKeys(keys) ==
    IF keys = {} THEN <<>>
    ELSE LET least == CHOOSE k \in keys : \A o \in keys \ {k} : StrLess(k, o)
         IN  <<least>> \o SortedKeys(keys \ {least})

\* the de-duplicated lists of an entry
DedupedInspection(entry, threshold) ==
    _dedupe_facts(entry.inspection_facts, "inspection", threshold)

\* the thermal list de-duplicated against the kept inspection statements too
DedupedThermalSharedSigs(entry, threshold) ==
    LET kept == DedupedInspection(entry, threshold)
        kept_sigs == [i \in 1..Len(kept) |-> Sig(_inspection_statement(kept[i]))] \o <<>>
    IN  DedupeLoop(<< <<>>, kept_sigs >>, entry.thermal_facts, "thermal", threshold)[1]

DedupedThermal(entry, threshold) ==
    _dedupe_facts(entry.thermal_facts, "thermal", threshold)

\* the loop body with conflict detection run on the lists as grouped, ahead of
\* the de-duplication
ProcessEntryConflictsFirst(entry, threshold) ==
    LET conflicts == ConflictLoop(entry.inspection_facts, entry.thermal_facts)
    IN  [ area |-> entry.area,
          inspection_facts |-> DedupedInspection(entry, threshold),
          thermal_facts |-> DedupedThermal(entry, threshold),
          conflicts |-> conflicts,
          conflict_detected |-> Len(conflicts) > 0 ]

\* the loop body without the assignment to entry.conflict_detected
ProcessEntryFlagUnset(entry, threshold) ==
    LET inspection_facts == DedupedInspection(entry, threshold)
        thermal_facts == DedupedThermal(entry, threshold)
    IN  [ area |-> entry.area,
          inspection_facts |-> inspection_facts,
          thermal_facts |-> thermal_facts,
          conflicts |-> ConflictLoop(inspection_facts, thermal_facts),
          conflict_detected |-> entry.conflict_detected ]

\* the body of the loop over the sorted keys: the entry as appended
ProcessEntry(entry, threshold) ==
    LET inspection_facts == DedupedInspection(entry, threshold)
        thermal_facts == DedupedThermal(entry, threshold)
        conflicts == ConflictLoop(inspection_facts, thermal_facts)
    IN  [ area |-> entry.area,
          inspection_facts |-> inspection_facts,
          thermal_facts |-> thermal_facts,
          conflicts |-> conflicts,
          conflict_detected |-> Len(conflicts) > 0 ]

merge_and_dedupe(inspection, thermal, similarity_threshold) ==
    LET area_map == GroupFacts(inspection, thermal)
        keys == SortedKeys(DOMAIN area_map)
    IN  [ merged_areas |->
            [i \in 1..Len(keys) |-> ProcessEntry(area_map[keys[i]], similarity_threshold)] ]

(***************************************************************************)
(* The list objects merge_and_dedupe appends to.  The facts lists of the   *)
(* two documents and of the entries are objects with an identity; an       *)
(* append changes the object it reaches, whoever else holds it.            *)
(***************************************************************************)
\* the facts list of an input document
DocumentList(source) == <<"document", source>>

\* an entry made with the facts list of the input document as its own list
EntryListOfDocument(key, source) == <<"document", source>>

\* entry.inspection_facts / entry.thermal_facts of the entry of a key:
\* Field(default_factory=list) makes the lists anew for every MergedAreaEntry
EntryList(key, source) == <<"entry", key, source>>

\* the list objects after one grouping loop
RECURSIVE AppendAll(_, _, _)
AppendAll(lists, facts, source) ==
    IF facts = <<>> THEN lists
    ELSE LET f == Head(facts)
             id == EntryList(AreaKey(f.area), source)
             before == IF id \in DOMAIN lists THEN lists[id] ELSE <<>>
         IN  AppendAll((id :> Append(before, f)) @@ lists, Tail(facts), source)

\* the list objects after the two grouping loops; the assignments of the
\* de-duplicated lists bind new lists and change none
ListsAfterGrouping(inspection, thermal) ==
    LET lists == (DocumentList("inspection") :> FactsOf(inspection))
                 @@ (DocumentList("thermal") :> FactsOf(thermal))
    IN  AppendAll(AppendAll(lists, FactsOf(inspection), "inspection"),
                  FactsOf(thermal), "thermal")

\* an optional document whose facts list holds the given facts
WithFacts(doc, facts) ==
    IF doc = {} THEN {} ELSE { [ d EXCEPT !.facts = facts ] : d \in doc }

\* the two documents the caller holds, after the call
DocumentsAfter(inspection, thermal) ==
    LET lists == ListsAfterGrouping(inspection, thermal)
    IN  [ inspection |-> WithFacts(inspection, lists[DocumentList("inspection")]),
          thermal |-> WithFacts(thermal, lists[DocumentList("thermal")]) ]

(***************************************************************************)
(* Files: load_facts_docs and the output file of run_merge_layer.          *)
(***************************************************************************)
\* a file that does not exist, one that is no JSON, one that is JSON but not of the
\* schema, and the JSON text of a value
AbsentFile == [kind |-> "absent"]
BadJsonFile == [kind |-> "bad_json"]
BadSchemaFile == [kind |-> "bad_schema"]
JsonFile(value) == [kind |-> "json", value |-> value]

\* the facts files run_merge_layer may find
FactsFiles(source) ==
    {AbsentFile, BadJsonFile, BadSchemaFile}
    \cup (IF source = "inspection"
          THEN { JsonFile(InspectionFactsDoc(fs)) :
                    fs \in { <<>>, <<InspHallNoDamp, InspHallSignsNo>> } }
          ELSE { JsonFile(ThermalFactsDoc(fs)) :
                    fs \in { <<>>, <<ThermHallLeakYes>> } })

\* merged_area_data.json before the run: absent, or left by an earlier run
OutFiles ==
    { AbsentFile,
      JsonFile([merged_areas |-> << MergedAreaEntry(AreaBath) >>]) }

RunThresholds == {92}

OutFileName == [path |-> "merged_area_data.json"]

\* the loading that swallows a malformed file and goes on as if it were missing
LoadFileLenient(file) ==
    IF file.kind = "json"
    THEN [raised |-> FALSE, doc |-> {file.value}]
    ELSE [raised |-> FALSE, doc |-> {}]

\* the loading without the path.exists() test: a missing file is an error
LoadFileMustExist(file) ==
    IF file.kind = "absent"
    THEN [raised |-> TRUE, exception |-> [exception |-> "FileNotFoundError"]]
    ELSE IF file.kind = "bad_json"
    THEN [raised |-> TRUE, exception |-> [exception |-> "JSONDecodeError"]]
    ELSE IF file.kind = "bad_schema"
    THEN [raised |-> TRUE, exception |-> [exception |-> "ValidationError"]]
    ELSE [raised |-> FALSE, doc |-> {file.value}]

\* path.exists(), json.loads(path.read_text()) and model_validate, for one file:
\* the document (None for no file) or the exception raised
LoadFile(file) ==
    IF file.kind = "absent"
    THEN [raised |-> FALSE, doc |-> {}]
    ELSE IF file.kind = "bad_json"
    THEN [raised |-> TRUE, exception |-> [exception |-> "JSONDecodeError"]]
    ELSE IF file.kind = "bad_schema"
    THEN [raised |-> TRUE, exception |-> [exception |-> "ValidationError"]]
    ELSE [raised |-> FALSE, doc |-> {file.value}]

\* merged.model_dump_json(indent=2)
DumpJson(merged) == JsonFile(CHOOSE m \in merged : TRUE)

(***************************************************************************)
(* extract_document: the pages of a PDF are processed by the worker        *)
(* processes of a ProcessPoolExecutor.  Pages are numbered from 0 as       *)
(* page_idx; a dict is the sequence of its <<key, value>> items in         *)
(* insertion order.                                                        *)
(***************************************************************************)
\* min(4, num_pages): the 4
MaxWorkers == 4

\* len(reader.pages) of the PDFs extract_document is called with
PdfPageCounts == {1, 2, 5}

\* config.max_pages: None, or a number
MaxPagesSettings == { {}, {0}, {2} }

\* the pages whose task raises: none, one, or the first and the last
FailingSets(n) ==
    { F \in SUBSET (0..(n - 1)) : Cardinality(F) <= 1 } \cup { {0, n - 1} }

Min(a, b) == IF a <= b THEN a ELSE b

\* num_pages after the cap by config.max_pages
NumPages(pdf_pages, max_pages) ==
    IF max_pages = {} THEN pdf_pages
    ELSE Min(pdf_pages, CHOOSE m \in max_pages : TRUE)

\* the PageExtraction _process_single_page builds for page_idx
PageExtraction(page_idx) ==
    [ page_number |-> page_idx + 1,
      raw_text |-> <<"selectable_text", page_idx>>,
      page_image_path |-> <<"page", page_idx + 1, "png">> ]

\* the value of dict[key]
Lookup(dict, key) == dict[CHOOSE k \in 1..Len(dict) : dict[k][1] = key][2]

\* dict[key] = value
SetItem(dict, key, value) ==
    IF \E k \in 1..Len(dict) : dict[k][1] = key
    THEN [k \in 1..Len(dict) |-> IF dict[k][1] = key THEN <<key, value>> ELSE dict[k]]
    ELSE Append(dict, <<key, value>>)

\* list(pages_dict.values()): the pages in the order they were collected
PagesAsCollected(pages_dict, num_pages) ==
    [k \in 1..Len(pages_dict) |-> pages_dict[k][2]]

\* [pages_dict[i] for i in range(num_pages)]
PagesByIndex(pages_dict, num_pages) ==
    [k \in 1..num_pages |-> Lookup(pages_dict, k - 1)]

DocumentExtraction(pages) == [ pages |-> pages ]

(***************************************************************************)
(* _extract_with_retries: the LLM is asked up to five times.  A response   *)
(* is the list of the lines of its content; a line is a code fence, a JSON *)
(* text or other text.                                                     *)
(***************************************************************************)
\* range(1, 6): the last attempt
MaxAttempts == 5

\* a line of three backquotes, and one followed by a language name; the backquotes
\* are written [fence]
Fence == "[fence]"
FenceJson == "[fence]json"
FenceLines == { Fence, FenceJson }
JsonValidLine == "{\"source\": \"inspection_report\", \"facts\": []}"
JsonBadSchemaLine == "{\"facts\": 7}"
ProseLine == "Here is the JSON you asked for"

\* message.content of the responses the LLM may give (None is no line)
ResponseContents ==
    { <<JsonValidLine>>,
      <<FenceJson, JsonValidLine, Fence>>,
      <<FenceJson, JsonValidLine>>,
      <<ProseLine>>,
      <<JsonBadSchemaLine>>,
      <<>> }

\* lines 71-79: a leading fence line is dropped and then a trailing Fence line
StripFences(lines) ==
    IF lines # <<>> /\ lines[1] \in FenceLines
    THEN LET rest == Tail(lines)
         IN  IF rest # <<>> /\ rest[Len(rest)] = Fence
             THEN SubSeq(rest, 1, Len(rest) - 1)
             ELSE rest
    ELSE lines

\* json.loads(text) does not raise JSONDecodeError
ParsesAsJson(lines) ==
    Len(lines) = 1 /\ lines[1] \in {JsonValidLine, JsonBadSchemaLine}

\* output_model.model_validate(data) does not raise ValidationError
Validates(lines) == lines = <<JsonValidLine>>

\* the loop that never gives up
AfterFailureForever(attempt) == "attempt"

\* continue: the next iteration, or the end of range(1, 6)
AfterFailure(attempt) == IF attempt < MaxAttempts THEN "attempt" ELSE "exhausted"

(***************************************************************************)
(* The state machine: a call is drawn, then made.                          *)
(***************************************************************************)
InitMerge ==
    /\ pc = "call"
    /\ \E ins \in {{}} \cup { {InspectionFactsDoc(fs)} : fs \in SeqUpTo(InspectionPool, MaxInspectionFacts) }
                      \cup { {InspectionFactsDoc(fs)} : fs \in ScenarioInspectionFacts },
          th \in {{}} \cup { {ThermalFactsDoc(fs)} : fs \in SeqUpTo(ThermalPool, MaxThermalFacts) }
                     \cup { {ThermalFactsDoc(fs)} : fs \in ScenarioThermalFacts },
          t \in MergeThresholds :
         /\ call = [ fn |-> "merge_and_dedupe", inspection |-> ins, thermal |-> th,
                     similarity_threshold |-> t ]
         /\ world = [ inspection |-> ins, thermal |-> th ]
    /\ ret = {}
    /\ frame = <<>>

InitDedupe ==
    /\ pc = "call"
    /\ \E kind \in {"inspection", "thermal"}, t \in DedupeThresholds :
         \E fs \in SeqUpTo(DedupePool(kind), MaxDedupeFacts)
                      \cup ScenarioDedupeFacts(kind) :
            call = [ fn |-> "_dedupe_facts", facts |-> fs, kind |-> kind,
                     similarity_threshold |-> t ]
    /\ ret = {}
    /\ frame = <<>>
    /\ world = <<>>

InitSimilar ==
    /\ pc = "call"
    /\ \E a \in SimilarTexts, b \in SimilarTexts :
         call = [ fn |-> "_similar", a |-> a, b |-> b ]
    /\ ret = {}
    /\ frame = <<>>
    /\ world = <<>>

InitInspectionStatement ==
    /\ pc = "call"
    /\ \E f \in StatementInspectionFacts : call = [ fn |-> "_inspection_statement", f |-> f ]
    /\ ret = {}
    /\ frame = <<>>
    /\ world = <<>>

InitThermalStatement ==
    /\ pc = "call"
    /\ \E f \in StatementThermalFacts : call = [ fn |-> "_thermal_statement", f |-> f ]
    /\ ret = {}
    /\ frame = <<>>
    /\ world = <<>>

InitNormalizeArea ==
    /\ pc = "call"
    /\ \E area \in AreaLabels : call = [ fn |-> "_normalize_area", area |-> area ]
    /\ ret = {}
    /\ frame = <<>>
    /\ world = <<>>

\* extract_document is called on a PDF; failing holds the pages whose task raises
InitExtractDocument ==
    /\ pc = "call"
    /\ \E n \in PdfPageCounts, m \in MaxPagesSettings :
         \E failing \in FailingSets(n) :
            call = [ fn |-> "extract_document", pdf_pages |-> n, max_pages |-> m,
                     failing |-> failing ]
    /\ ret = {}
    /\ frame = <<>>
    /\ world = <<>>

\* _extract_with_retries is called with GROQ_API_KEY set or not; world.calls is
\* the log of what the LLM service answered
InitExtractWithRetries ==
    /\ pc = "call"
    /\ \E api_key \in {"", "gsk_key"} :
         call = [ fn |-> "_extract_with_retries", api_key |-> api_key ]
    /\ ret = {}
    /\ frame = [ attempt |-> 0, last_text |-> {}, last_error |-> {} ]
    /\ world = [ calls |-> <<>> ]

\* run_merge_layer is called in a world of three files
InitRunMergeLayer ==
    /\ pc = "call"
    /\ \E insp \in FactsFiles("inspection"), therm \in FactsFiles("thermal"),
          out \in OutFiles, t \in RunThresholds :
         /\ call = [ fn |-> "run_merge_layer", similarity_threshold |-> t ]
         /\ world = [ inspection_facts |-> insp,
                      thermal_facts |-> therm,
                      out_dir |-> out.kind # "absent",
                      merged_area_data |-> out,
                      writes |-> 0 ]
    /\ ret = {}
    /\ frame = [ inspection_doc |-> {}, thermal_doc |-> {}, merged |-> {} ]

Init ==
    \/ InitMerge
    \/ InitDedupe
    \/ InitSimilar
    \/ InitInspectionStatement
    \/ InitThermalStatement
    \/ InitNormalizeArea
    \/ InitRunMergeLayer
    \/ InitExtractDocument
    \/ InitExtractWithRetries

MergeAndDedupe ==
    /\ pc = "call"
    /\ call.fn = "merge_and_dedupe"
    /\ ret' = merge_and_dedupe(call.inspection, call.thermal, call.similarity_threshold)
    /\ world' = DocumentsAfter(world.inspection, world.thermal)
    /\ pc' = "return"
    /\ UNCHANGED <<call, frame>>

DedupeFacts ==
    /\ pc = "call"
    /\ call.fn = "_dedupe_facts"
    /\ ret' = _dedupe_facts(call.facts, call.kind, call.similarity_threshold)
    /\ pc' = "return"
    /\ UNCHANGED <<call, frame, world>>

CompareStatements ==
    /\ pc = "call"
    /\ call.fn = "_similar"
    /\ ret' = _similar(call.a, call.b)
    /\ pc' = "return"
    /\ UNCHANGED <<call, frame, world>>

InspectionStatement ==
    /\ pc = "call"
    /\ call.fn = "_inspection_statement"
    /\ ret' = _inspection_statement(call.f)
    /\ pc' = "return"
    /\ UNCHANGED <<call, frame, world>>

ThermalStatement ==
    /\ pc = "call"
    /\ call.fn = "_thermal_statement"
    /\ ret' = _thermal_statement(call.f)
    /\ pc' = "return"
    /\ UNCHANGED <<call, frame, world>>

NormalizeArea ==
    /\ pc = "call"
    /\ call.fn = "_normalize_area"
    /\ ret' = _normalize_area(call.area)
    /\ pc' = "return"
    /\ UNCHANGED <<call, frame, world>>

\* out_path.mkdir(parents=True, exist_ok=True)
RunMkdir ==
    /\ pc = "call"
    /\ call.fn = "run_merge_layer"
    /\ world' = [world EXCEPT !.out_dir = TRUE]
    /\ pc' = "load_inspection"
    /\ UNCHANGED <<call, ret, frame>>

\* load_facts_docs, the inspection file
LoadInspection ==
    /\ pc = "load_inspection"
    /\ LET loaded == LoadFile(world.inspection_facts)
       IN  IF loaded.raised
           THEN /\ pc' = "raise"
                /\ ret' = loaded.exception
                /\ UNCHANGED frame
           ELSE /\ pc' = "load_thermal"
                /\ frame' = [frame EXCEPT !.inspection_doc = loaded.doc]
                /\ UNCHANGED ret
    /\ UNCHANGED <<call, world>>

\* load_facts_docs, the thermal file
LoadThermal ==
    /\ pc = "load_thermal"
    /\ LET loaded == LoadFile(world.thermal_facts)
       IN  IF loaded.raised
           THEN /\ pc' = "raise"
                /\ ret' = loaded.exception
                /\ UNCHANGED frame
           ELSE /\ pc' = "merge"
                /\ frame' = [frame EXCEPT !.thermal_doc = loaded.doc]
                /\ UNCHANGED ret
    /\ UNCHANGED <<call, world>>

\* merged = merge_and_dedupe(...)
RunMerge ==
    /\ pc = "merge"
    /\ frame' = [frame EXCEPT !.merged =
                    { merge_and_dedupe(frame.inspection_doc, frame.thermal_doc,
                                       call.similarity_threshold) }]
    /\ pc' = "write"
    /\ UNCHANGED <<call, ret, world>>

\* out_file.write_text(merged.model_dump_json(indent=2)); return out_file
RunWrite ==
    /\ pc = "write"
    /\ world' = [world EXCEPT !.merged_area_data = DumpJson(frame.merged),
                              !.writes = @ + 1]
    /\ ret' = OutFileName
    /\ pc' = "return"
    /\ UNCHANGED <<call, frame>>

\* extract_document up to the end of the submit loop: the executor is made with
\* max_workers = min(4, num_pages), which must be positive, and every page is submitted
ExtractSubmit ==
    /\ pc = "call"
    /\ call.fn = "extract_document"
    /\ LET num_pages == NumPages(call.pdf_pages, call.max_pages)
       IN  IF Min(MaxWorkers, num_pages) <= 0
           THEN /\ pc' = "raise"
                /\ ret' = [exception |-> "ValueError"]
                /\ UNCHANGED <<frame, world>>
           ELSE /\ pc' = "collect"
                /\ frame' = [ num_pages |-> num_pages, pages_dict |-> <<>>,
                              yielded |-> {} ]
                /\ world' = [ max_workers |-> Min(MaxWorkers, num_pages),
                              tasks |-> [i \in 0..(num_pages - 1) |-> "queued"] ]
                /\ UNCHANGED ret
    /\ UNCHANGED call

\* a free worker process takes the oldest queued task
WorkerStart ==
    /\ pc \in {"collect", "shutdown"}
    /\ call.fn = "extract_document"
    /\ Cardinality({ i \in DOMAIN world.tasks : world.tasks[i] = "running" })
         < world.max_workers
    /\ \E i \in DOMAIN world.tasks :
         /\ world.tasks[i] = "queued"
         /\ \A j \in DOMAIN world.tasks : world.tasks[j] = "queued" => i <= j
         /\ world' = [world EXCEPT !.tasks[i] = "running"]
    /\ UNCHANGED <<pc, call, ret, frame>>

\* a worker process ends _process_single_page: it returns (page_idx, page) or raises
WorkerFinish ==
    /\ pc \in {"collect", "shutdown"}
    /\ call.fn = "extract_document"
    /\ \E i \in DOMAIN world.tasks :
         /\ world.tasks[i] = "running"
         /\ world' = [world EXCEPT !.tasks[i] =
                         IF i \in call.failing THEN "raised" ELSE "returned"]
    /\ UNCHANGED <<pc, call, ret, frame>>

\* one iteration of the loop over as_completed(futures): future.result() gives the
\* pair, or raises what the task raised and leaves the with block
CollectResult ==
    /\ pc = "collect"
    /\ call.fn = "extract_document"
    /\ \E i \in DOMAIN world.tasks \ frame.yielded :
         \/ /\ world.tasks[i] = "returned"
            /\ frame' = [frame EXCEPT !.yielded = @ \cup {i},
                                       !.pages_dict = SetItem(@, i, PageExtraction(i))]
            /\ UNCHANGED <<pc, ret>>
         \/ /\ world.tasks[i] = "raised"
            /\ frame' = [frame EXCEPT !.yielded = @ \cup {i}]
            /\ ret' = [exception |-> "PageTaskError", page_idx |-> i]
            /\ pc' = "shutdown"
    /\ UNCHANGED <<call, world>>

\* the exception leaves the with block: shutdown(wait=True) waits for every task
\* submitted, then the exception reaches the caller
ExtractRaise ==
    /\ pc = "shutdown"
    /\ call.fn = "extract_document"
    /\ \A i \in DOMAIN world.tasks : world.tasks[i] \in {"returned", "raised"}
    /\ pc' = "raise"
    /\ UNCHANGED <<call, ret, frame, world>>

\* every future was yielded: the pages are put in order and the document returned
ExtractReturn ==
    /\ pc = "collect"
    /\ call.fn = "extract_document"
    /\ frame.yielded = DOMAIN world.tasks
    /\ ret' = DocumentExtraction(PagesByIndex(frame.pages_dict, frame.num_pages))
    /\ pc' = "return"
    /\ UNCHANGED <<call, frame, world>>

\* lines 24-33: the key is read and the client made
CheckApiKey ==
    /\ pc = "call"
    /\ call.fn = "_extract_with_retries"
    /\ IF call.api_key = ""
       THEN /\ pc' = "raise"
            /\ ret' = [exception |-> "RuntimeError", message |-> "GROQ_API_KEY is not set"]
            /\ UNCHANGED frame
       ELSE /\ pc' = "attempt"
            /\ frame' = [frame EXCEPT !.attempt = 1]
            /\ UNCHANGED ret
    /\ UNCHANGED <<call, world>>

\* one iteration of the loop: the LLM is called; the call raises, or its response
\* is stripped of code fences, parsed and validated
Attempt ==
    /\ pc = "attempt"
    /\ call.fn = "_extract_with_retries"
    /\ \/ /\ world' = [world EXCEPT !.calls = Append(@, "api_error")]
          /\ pc' = "raise"
          /\ ret' = [exception |-> "APIError"]
          /\ UNCHANGED frame
       \/ \E content \in ResponseContents :
            LET text == StripFences(content)
            IN  /\ world' = [world EXCEPT !.calls = Append(@, content)]
                /\ IF ~ParsesAsJson(text)
                   THEN /\ frame' = [ attempt |-> Min(frame.attempt + 1, MaxAttempts),
                                      last_text |-> {text},
                                      last_error |-> {"JSON decode error"} ]
                        /\ pc' = AfterFailure(frame.attempt)
                        /\ UNCHANGED ret
                   ELSE IF ~Validates(text)
                   THEN /\ frame' = [ attempt |-> Min(frame.attempt + 1, MaxAttempts),
                                      last_text |-> {text},
                                      last_error |-> {"Validation error"} ]
                        /\ pc' = AfterFailure(frame.attempt)
                        /\ UNCHANGED ret
                   ELSE /\ frame' = [frame EXCEPT !.last_text = {text}]
                        /\ pc' = "return"
                        /\ ret' = [model |-> text[1]]
    /\ UNCHANGED call

\* lines 99-106: the loop ended without a return
RaiseExhausted ==
    /\ pc = "exhausted"
    /\ call.fn = "_extract_with_retries"
    /\ pc' = "raise"
    /\ ret' = [exception |-> "RuntimeError", message |-> "Groq extraction failed"]
    /\ UNCHANGED <<call, frame, world>>

Next ==
    \/ MergeAndDedupe
    \/ DedupeFacts
    \/ CompareStatements
    \/ InspectionStatement
    \/ ThermalStatement
    \/ NormalizeArea
    \/ RunMkdir
    \/ LoadInspection
    \/ LoadThermal
    \/ RunMerge
    \/ RunWrite
    \/ ExtractSubmit
    \/ WorkerStart
    \/ WorkerFinish
    \/ CollectResult
    \/ ExtractRaise
    \/ ExtractReturn
    \/ CheckApiKey
    \/ Attempt
    \/ RaiseExhausted

Spec == Init /\ [][Next]_vars

\* states in which a call of the named function has returned
Returned(fn) == pc = "return" /\ call.fn = fn

(***************************************************************************)
(* Vocabulary of the properties.                                           *)
(***************************************************************************)
MergeReturned == Returned("merge_and_dedupe")
DedupeReturned == Returned("_dedupe_facts")

\* the facts of the two input documents and the similarity threshold of the call
InFacts(source) ==
    IF source = "inspection" THEN FactsOf(call.inspection) ELSE FactsOf(call.thermal)
Threshold == call.similarity_threshold

\* the Area Groups of the output, and the list of one source in a group
Groups == ret.merged_areas
ListOf(g, source) ==
    IF source = "inspection" THEN g.inspection_facts ELSE g.thermal_facts
GroupKey(g) == AreaKey(g.area)

Sources == {"inspection", "thermal"}
Occurs(f, seq) == \E i \in 1..Len(seq) : seq[i] = f
CountIn(seq, f) == Cardinality({ i \in 1..Len(seq) : seq[i] = f })
SigOf(source, f) == StatementSig(source, f)

\* the de-duplicator's test of candidate c against a fact k, both of one source
DupAgainst(source, c, k, threshold) ==
    /\ SigOf(source, c) # <<>>
    /\ SigOf(source, k) # <<>>
    /\ \/ SigOf(source, c) = SigOf(source, k)
       \/ AtLeast(Similar(SigOf(source, c), SigOf(source, k)), threshold)

\* the retained facts of a group that take part in conflict detection
QualifyingInspection(g) ==
    { i \in 1..Len(g.inspection_facts) :
        _inspection_indicates_no_moisture(g.inspection_facts[i]) }
QualifyingThermal(g) ==
    { j \in 1..Len(g.thermal_facts) :
        _thermal_indicates_moisture_anomaly(g.thermal_facts[j]) }

\* a Conflict of the group names this inspection (thermal) fact as its side
IsInspectionSide(g, f) ==
    \E k \in 1..Len(g.conflicts) :
        /\ g.conflicts[k].inspection_statement = _inspection_statement(f)
        /\ g.conflicts[k].inspection_evidence = f.evidence
IsThermalSide(g, f) ==
    \E k \in 1..Len(g.conflicts) :
        /\ g.conflicts[k].thermal_statement = _thermal_statement(f)
        /\ g.conflicts[k].thermal_evidence = f.evidence

(***************************************************************************)
(* C1.  As claimed: every fact of the input documents appears in exactly   *)
(* one output Area Group, in the list of its source of the group whose key *)
(* is the fact's normalized area.  This fails for a fact that              *)
(* de-duplication discards.                                                *)
(***************************************************************************)
C1_EveryFactInExactlyOneGroup ==
    MergeReturned =>
      \A source \in Sources :
        \A n \in 1..Len(InFacts(source)) :
          LET f == InFacts(source)[n]
              holders == { i \in 1..Len(Groups) : Occurs(f, ListOf(Groups[i], source)) }
          IN  /\ Cardinality(holders) = 1
              /\ \A i \in holders : GroupKey(Groups[i]) = AreaKey(f.area)

(***************************************************************************)
(* C1, amended.  Every fact of the input documents appears in at most one  *)
(* output Area Group and only in the list of its source of the group whose *)
(* key is the fact's normalized area; that group exists, and the fact      *)
(* appears in it unless the list retains a fact with a non-empty normalized*)
(* statement identical to the fact's or similar to it at the threshold.    *)
(***************************************************************************)
C1_FactInOwnGroupUnlessDuplicate ==
    MergeReturned =>
      \A source \in Sources :
        \A n \in 1..Len(InFacts(source)) :
          LET f == InFacts(source)[n]
              holders == { i \in 1..Len(Groups) : Occurs(f, ListOf(Groups[i], source)) }
              own == { i \in 1..Len(Groups) : GroupKey(Groups[i]) = AreaKey(f.area) }
          IN  /\ Cardinality(own) = 1
              /\ holders \subseteq own
              /\ \A i \in own :
                   \/ Occurs(f, ListOf(Groups[i], source))
                   \/ \E k \in 1..Len(ListOf(Groups[i], source)) :
                        DupAgainst(source, f, ListOf(Groups[i], source)[k], Threshold)

\* a merge over two groups in which one inspection fact was discarded as a duplicate
C1_Witness ==
    /\ MergeReturned
    /\ Len(Groups) >= 2
    /\ \E n \in 1..Len(InFacts("inspection")) :
         \A i \in 1..Len(Groups) :
           ~Occurs(InFacts("inspection")[n], Groups[i].inspection_facts)

(***************************************************************************)
(* C2.  merged_areas is strictly ascending by normalized area key, in the  *)
(* lexicographic order of the key strings; no two groups share a key.      *)
(***************************************************************************)
C2_StrictlyAscendingKeys ==
    MergeReturned =>
      \A i, j \in 1..Len(Groups) :
        i < j => StrLess(GroupKey(Groups[i]), GroupKey(Groups[j]))

\* several groups, met in the input in another order than the sorted one
C2_Witness ==
    /\ MergeReturned
    /\ Len(Groups) >= 2
    /\ InFacts("inspection") # <<>>
    /\ AreaKey(InFacts("inspection")[1].area) # GroupKey(Groups[1])

(***************************************************************************)
(* C3.  In each group the conflicts are exactly one Conflict of type       *)
(* "inspection_no_moisture_vs_thermal_moisture_anomaly" per pair of a      *)
(* retained inspection fact indicating no moisture and a retained thermal  *)
(* fact indicating a moisture anomaly: their number is the product of the  *)
(* two counts.                                                             *)
(***************************************************************************)
C3_ConflictsAreCrossProduct ==
    MergeReturned =>
      \A n \in 1..Len(Groups) :
        LET g == Groups[n]
        IN  /\ Len(g.conflicts)
                 = Cardinality(QualifyingInspection(g)) * Cardinality(QualifyingThermal(g))
            /\ \A k \in 1..Len(g.conflicts) :
                 g.conflicts[k].type = "inspection_no_moisture_vs_thermal_moisture_anomaly"
            /\ \A i \in QualifyingInspection(g) : \A j \in QualifyingThermal(g) :
                 Cardinality({ k \in 1..Len(g.conflicts) :
                                 g.conflicts[k]
                                   = MergeConflict(g.inspection_facts[i], g.thermal_facts[j]) })
                   = 1

\* a group with two qualifying facts on each side, hence four conflicts
C3_Witness ==
    /\ MergeReturned
    /\ \E n \in 1..Len(Groups) :
         /\ Cardinality(QualifyingInspection(Groups[n])) >= 2
         /\ Cardinality(QualifyingThermal(Groups[n])) >= 2
         /\ Len(Groups[n].conflicts) = 4

(***************************************************************************)
(* C4.  Every Conflict of a group pairs an inspection fact and a thermal   *)
(* fact of the input whose normalized areas are both the group's key: facts*)
(* of areas with different keys never produce a Conflict.                  *)
(***************************************************************************)
C4_ConflictWithinOneArea ==
    MergeReturned =>
      \A n \in 1..Len(Groups) :
        \A k \in 1..Len(Groups[n].conflicts) :
          \E i \in 1..Len(InFacts("inspection")), j \in 1..Len(InFacts("thermal")) :
            /\ AreaKey(InFacts("inspection")[i].area) = GroupKey(Groups[n])
            /\ AreaKey(InFacts("thermal")[j].area) = GroupKey(Groups[n])
            /\ Groups[n].conflicts[k]
                 = MergeConflict(InFacts("inspection")[i], InFacts("thermal")[j])

\* a no-moisture inspection fact and a moisture-anomaly thermal fact in different
\* areas, unpaired, in an output that does hold a conflict
C4_Witness ==
    /\ MergeReturned
    /\ \E n \in 1..Len(Groups) : Groups[n].conflict_detected
    /\ \E i \in 1..Len(InFacts("inspection")), j \in 1..Len(InFacts("thermal")) :
         LET inf == InFacts("inspection")[i]
             thf == InFacts("thermal")[j]
         IN  /\ _inspection_indicates_no_moisture(inf)
             /\ _thermal_indicates_moisture_anomaly(thf)
             /\ AreaKey(inf.area) # AreaKey(thf.area)
             /\ \A n \in 1..Len(Groups) :
                  \A k \in 1..Len(Groups[n].conflicts) :
                    Groups[n].conflicts[k] # MergeConflict(inf, thf)

(***************************************************************************)
(* C5.  An inspection fact counts as indicating no moisture (it is the     *)
(* inspection side of a Conflict with every moisture-anomaly thermal fact  *)
(* of its group) if and only if its moisture_signs field is "no" or its    *)
(* projected statement, normalized for matching, contains one of the       *)
(* negative-moisture keywords.                                             *)
(***************************************************************************)
C5_NoMoistureIffFieldOrKeyword ==
    MergeReturned =>
      \A n \in 1..Len(Groups) :
        QualifyingThermal(Groups[n]) # {} =>
          \A i \in 1..Len(Groups[n].inspection_facts) :
            LET f == Groups[n].inspection_facts[i]
            IN  IsInspectionSide(Groups[n], f)
                  <=> \/ f.moisture_signs = "no"
                      \/ \E p \in _NEG_MOISTURE_PATTERNS :
                           Contains(Sig(_inspection_statement(f)), p)

\* beside a moisture-anomaly thermal fact: an inspection fact that conflicts by its
\* keyword alone, and one that does not conflict
C5_Witness ==
    /\ MergeReturned
    /\ \E n \in 1..Len(Groups) :
         /\ QualifyingThermal(Groups[n]) # {}
         /\ \E i, j \in 1..Len(Groups[n].inspection_facts) :
              /\ Groups[n].inspection_facts[i].moisture_signs # "no"
              /\ IsInspectionSide(Groups[n], Groups[n].inspection_facts[i])
              /\ ~IsInspectionSide(Groups[n], Groups[n].inspection_facts[j])

(***************************************************************************)
(* C6.  A thermal fact counts as indicating a moisture-related anomaly (it *)
(* is the thermal side of a Conflict with every no-moisture inspection fact*)
(* of its group) if and only if its thermal_anomaly field is "yes" and its *)
(* projected statement contains a positive-moisture keyword; a thermal     *)
(* fact whose thermal_anomaly is not "yes" is in no Conflict.              *)
(***************************************************************************)
C6_AnomalyIffYesAndKeyword ==
    MergeReturned =>
      \A n \in 1..Len(Groups) :
        \A j \in 1..Len(Groups[n].thermal_facts) :
          LET f == Groups[n].thermal_facts[j]
          IN  /\ f.thermal_anomaly # "yes" => ~IsThermalSide(Groups[n], f)
              /\ QualifyingInspection(Groups[n]) # {} =>
                   ( IsThermalSide(Groups[n], f)
                       <=> /\ f.thermal_anomaly = "yes"
                           /\ \E p \in _POS_MOISTURE_PATTERNS :
                                Contains(Sig(_thermal_statement(f)), p) )

\* beside a no-moisture inspection fact: a thermal fact that conflicts although its
\* suspected_issue is "Not Available", and one with a keyword and thermal_anomaly "no"
C6_Witness ==
    /\ MergeReturned
    /\ \E n \in 1..Len(Groups) :
         /\ QualifyingInspection(Groups[n]) # {}
         /\ \E i, j \in 1..Len(Groups[n].thermal_facts) :
              /\ Groups[n].thermal_facts[i].suspected_issue = NotAvailable
              /\ IsThermalSide(Groups[n], Groups[n].thermal_facts[i])
              /\ Groups[n].thermal_facts[j].thermal_anomaly = "no"
              /\ \E p \in _POS_MOISTURE_PATTERNS :
                   Contains(Sig(_thermal_statement(Groups[n].thermal_facts[j])), p)
              /\ ~IsThermalSide(Groups[n], Groups[n].thermal_facts[j])

(***************************************************************************)
(* Vocabulary of the properties of _dedupe_facts.                          *)
(***************************************************************************)
\* the facts of a sequence at the positions K, in order
Restrict(seq, K) == SelectSeq([i \in 1..Len(seq) |-> <<i, seq[i]>>] \o <<>>,
                              LAMBDA p : p[1] \in K)
FactsAt(seq, K) == LET r == Restrict(seq, K) IN [i \in 1..Len(r) |-> r[i][2]] \o <<>>

\* the facts of a sequence whose normalized statement is (not) empty
Blank(kind, f) == SigOf(kind, f) = <<>>
NonBlankOf(kind, seq) == SelectSeq(seq, LAMBDA f : ~Blank(kind, f))

(***************************************************************************)
(* C7.  Scanning the facts in input order, _dedupe_facts discards a        *)
(* candidate with a non-empty normalized statement if and only if a fact   *)
(* kept from the facts before it has a non-empty normalized statement      *)
(* identical to the candidate's or similar to it at the threshold: the     *)
(* result for a list is the result for the list without its last fact,     *)
(* followed by the last fact unless a fact of that result is a duplicate   *)
(* of it.  Discarded facts play no part in the comparison.                 *)
(***************************************************************************)
C7_DiscardedIffDuplicateOfKept ==
    DedupeReturned /\ call.facts # <<>> =>
      LET n == Len(call.facts)
          last == call.facts[n]
          keptFront == _dedupe_facts(SubSeq(call.facts, 1, n - 1), call.kind, Threshold)
          dup == \E k \in 1..Len(keptFront) :
                    DupAgainst(call.kind, last, keptFront[k], Threshold)
      IN  ret = IF dup THEN keptFront ELSE Append(keptFront, last)

\* the third fact is similar to the second, which was discarded as a duplicate of
\* the first; the third is not similar to the first and is kept
C7_Witness ==
    /\ DedupeReturned
    /\ Len(call.facts) = 3
    /\ DupAgainst(call.kind, call.facts[2], call.facts[1], Threshold)
    /\ DupAgainst(call.kind, call.facts[3], call.facts[2], Threshold)
    /\ ~DupAgainst(call.kind, call.facts[3], call.facts[1], Threshold)
    /\ ret = <<call.facts[1], call.facts[3]>>

(***************************************************************************)
(* C8.  As claimed: the list returned by _dedupe_facts is a subsequence of *)
(* its input, and of facts that are duplicates of each other only the      *)
(* earliest is retained.  This fails where the earlier of two mutual       *)
(* duplicates was itself discarded as a duplicate of a third fact that the *)
(* later one is not similar to.                                            *)
(***************************************************************************)
C8_EarliestOfMutualDuplicatesRetained ==
    DedupeReturned =>
      \E K \in SUBSET (1..Len(call.facts)) :
        /\ ret = FactsAt(call.facts, K)
        /\ \A i, j \in 1..Len(call.facts) :
             ( /\ i < j
               /\ DupAgainst(call.kind, call.facts[j], call.facts[i], Threshold)
               /\ DupAgainst(call.kind, call.facts[i], call.facts[j], Threshold) )
             => j \notin K

(***************************************************************************)
(* C8, amended.  The list returned by _dedupe_facts is a subsequence of    *)
(* its input, in input order; no retained fact is a duplicate of a         *)
(* retained fact before it, and every fact that is not retained is a       *)
(* duplicate of a retained fact before it.                                 *)
(***************************************************************************)
C8_SubsequenceFirstRetainedWins ==
    DedupeReturned =>
      \E K \in SUBSET (1..Len(call.facts)) :
        /\ ret = FactsAt(call.facts, K)
        /\ \A i, j \in K :
             i < j => ~DupAgainst(call.kind, call.facts[j], call.facts[i], Threshold)
        /\ \A j \in (1..Len(call.facts)) \ K :
             \E i \in K :
               i < j /\ DupAgainst(call.kind, call.facts[j], call.facts[i], Threshold)

\* a fact was discarded in favour of the fact before it, and a later fact that is
\* no duplicate of it was kept behind it
C8_Witness ==
    /\ DedupeReturned
    /\ Len(call.facts) = 3
    /\ call.facts[1] # call.facts[2]
    /\ DupAgainst(call.kind, call.facts[2], call.facts[1], Threshold)
    /\ DupAgainst(call.kind, call.facts[1], call.facts[2], Threshold)
    /\ ~Blank(call.kind, call.facts[3])
    /\ ret = <<call.facts[1], call.facts[3]>>

(***************************************************************************)
(* C9.  A fact whose projected statement normalizes to the empty string is *)
(* always kept by _dedupe_facts, at every threshold, and no fact is        *)
(* discarded because of it: every such fact occurs in the result as often  *)
(* as in the input, and the facts with a non-empty normalized statement    *)
(* that are kept are those kept when the empty ones are left out of the    *)
(* input.                                                                  *)
(***************************************************************************)
C9_EmptyStatementAlwaysKept ==
    DedupeReturned =>
      /\ \A n \in 1..Len(call.facts) :
           Blank(call.kind, call.facts[n]) =>
             CountIn(ret, call.facts[n]) = CountIn(call.facts, call.facts[n])
      /\ NonBlankOf(call.kind, ret)
           = _dedupe_facts(NonBlankOf(call.kind, call.facts), call.kind, Threshold)

\* at threshold 0: two facts with an empty statement and a fact with a non-empty one
\* behind them, all three kept
C9_Witness ==
    /\ DedupeReturned
    /\ Threshold = 0
    /\ Len(call.facts) = 3
    /\ Blank(call.kind, call.facts[1])
    /\ Blank(call.kind, call.facts[2])
    /\ ~Blank(call.kind, call.facts[3])
    /\ ret = call.facts

(***************************************************************************)
(* C10.  De-duplication in merge_and_dedupe never reaches across Area      *)
(* Groups or across sources: a fact of an input document is in the list of *)
(* its source of the group of its normalized area whenever its normalized  *)
(* statement is empty or no fact before it in the same document with the   *)
(* same normalized area is a duplicate of it.                              *)
(***************************************************************************)
C10_DedupeWithinGroupAndSource ==
    MergeReturned =>
      \A source \in Sources :
        \A n \in 1..Len(InFacts(source)) :
          LET f == InFacts(source)[n]
              earlier == { m \in 1..(n - 1) :
                             AreaKey(InFacts(source)[m].area) = AreaKey(f.area) }
          IN  ( \/ Blank(source, f)
                \/ \A m \in earlier :
                     ~DupAgainst(source, f, InFacts(source)[m], Threshold) )
              => \E i \in 1..Len(Groups) :
                   /\ GroupKey(Groups[i]) = AreaKey(f.area)
                   /\ Occurs(f, ListOf(Groups[i], source))

\* two inspection facts with one statement in two areas, and a thermal fact with the
\* same normalized statement in the area of the first: all three are in the output
C10_Witness ==
    /\ MergeReturned
    /\ \E a, b \in 1..Len(InFacts("inspection")), c \in 1..Len(InFacts("thermal")) :
         LET f == InFacts("inspection")[a]
             g == InFacts("inspection")[b]
             h == InFacts("thermal")[c]
         IN  /\ AreaKey(f.area) # AreaKey(g.area)
             /\ AreaKey(f.area) = AreaKey(h.area)
             /\ ~Blank("inspection", f)
             /\ SigOf("inspection", f) = SigOf("inspection", g)
             /\ SigOf("inspection", f) = SigOf("thermal", h)
             /\ \E i, j \in 1..Len(Groups) :
                  /\ i # j
                  /\ Occurs(f, Groups[i].inspection_facts)
                  /\ Occurs(h, Groups[i].thermal_facts)
                  /\ Occurs(g, Groups[j].inspection_facts)

(***************************************************************************)
(* Vocabulary of the algebraic properties.                                 *)
(***************************************************************************)
\* the facts of one source of an output, group after group
RECURSIVE FactsOfGroups(_, _)
FactsOfGroups(groups, source) ==
    IF groups = <<>> THEN <<>>
    ELSE ListOf(Head(groups), source) \o FactsOfGroups(Tail(groups), source)

\* the fact lists of the groups of an output
FactLists(groups) ==
    [i \in 1..Len(groups) |->
        <<groups[i].inspection_facts, groups[i].thermal_facts>>] \o <<>>

(***************************************************************************)
(* C11.  Dedup idempotence: _dedupe_facts applied to its own result with   *)
(* the same threshold returns that result unchanged; and merge_and_dedupe  *)
(* run on the facts of its own output with the same threshold yields the   *)
(* same groups with the same fact lists, no fact removed.                  *)
(***************************************************************************)
C11_DedupIdempotent ==
    /\ DedupeReturned => _dedupe_facts(ret, call.kind, Threshold) = ret
    /\ MergeReturned =>
         LET again == merge_and_dedupe(
                        {InspectionFactsDoc(FactsOfGroups(Groups, "inspection"))},
                        {ThermalFactsDoc(FactsOfGroups(Groups, "thermal"))},
                        Threshold)
         IN  FactLists(again.merged_areas) = FactLists(Groups)

\* a de-duplication that discarded a fact and kept two facts of which the second is
\* a duplicate of the discarded one
C11_Witness ==
    /\ DedupeReturned
    /\ Len(call.facts) = 3
    /\ Len(ret) = 2
    /\ \E n \in 1..3 :
         /\ ~Occurs(call.facts[n], ret)
         /\ DupAgainst(call.kind, ret[2], call.facts[n], Threshold)

(***************************************************************************)
(* C12.  Dedup monotonicity: for thresholds t1 <= t2, _dedupe_facts removes*)
(* at t2 at most as many facts of a list as it removes at t1.              *)
(***************************************************************************)
C12_DedupMonotone ==
    DedupeReturned =>
      \A t1 \in DedupeThresholds :
        t1 <= Threshold =>
          Len(call.facts) - Len(ret)
            <= Len(call.facts) - Len(_dedupe_facts(call.facts, call.kind, t1))

(***************************************************************************)
(* C13.  At threshold 1.0, _dedupe_facts removes a fact if and only if a   *)
(* fact before it has exactly the same non-empty normalized statement: the *)
(* result is the input without every fact whose non-empty normalized       *)
(* statement already occurred, and two facts whose normalized statements   *)
(* differ in any character are both kept.                                  *)
(***************************************************************************)
C13_ThresholdOneRemovesExactOnly ==
    DedupeReturned /\ Threshold = 100 =>
      ret = FactsAt(call.facts,
                    { j \in 1..Len(call.facts) :
                        \/ Blank(call.kind, call.facts[j])
                        \/ \A i \in 1..(j - 1) :
                             SigOf(call.kind, call.facts[i]) # SigOf(call.kind, call.facts[j]) })

\* at threshold 1.0: two distinct facts with one normalized statement, of which the
\* second is removed, and a fact that is similar to the first at 0.8 and is kept
C13_Witness ==
    /\ DedupeReturned
    /\ Threshold = 100
    /\ \E i, j, k \in 1..Len(call.facts) :
         /\ i < j
         /\ call.facts[i] # call.facts[j]
         /\ ~Blank(call.kind, call.facts[i])
         /\ SigOf(call.kind, call.facts[i]) = SigOf(call.kind, call.facts[j])
         /\ ~Occurs(call.facts[j], ret)
         /\ SigOf(call.kind, call.facts[k]) # SigOf(call.kind, call.facts[i])
         /\ DupAgainst(call.kind, call.facts[k], call.facts[i], 80)
         /\ Occurs(call.facts[k], ret)

(***************************************************************************)
(* C14.  Example scenario 2: of two inspection facts in area "Kitchen"     *)
(* with the projected statements "visible mold near sink" and "visible     *)
(* mould near the sink", merged at threshold 0.92, only the first is kept  *)
(* in the Kitchen group.                                                   *)
(***************************************************************************)
C14_MoldMouldCollapse ==
    ( /\ MergeReturned
      /\ Threshold = 92
      /\ InFacts("inspection") = <<InspKitchenMold, InspKitchenMould>> )
    => \E i \in 1..Len(Groups) :
         /\ GroupKey(Groups[i]) = AreaKey(AreaKitchen)
         /\ Groups[i].inspection_facts = <<InspKitchenMold>>

(***************************************************************************)
(* Vocabulary of the properties of the grouping.                           *)
(***************************************************************************)
\* the facts of a call in the order merge_and_dedupe visits them
Visited == InFacts("inspection") \o InFacts("thermal")

\* the first fact visited whose area has the key of group g
FirstVisited(g) ==
    LET key == GroupKey(g)
        keys == [n \in 1..Len(Visited) |-> AreaKey(Visited[n].area)] \o <<>>
    IN  Visited[CHOOSE n \in 1..Len(keys) :
                  /\ keys[n] = key
                  /\ \A m \in 1..(n - 1) : keys[m] # key]

\* the groups of the output that have the key of a raw label
GroupsOf(area_raw) == { i \in 1..Len(Groups) : GroupKey(Groups[i]) = AreaKey(area_raw) }

\* facts whose raw labels differ at most in letter case and surrounding whitespace
\* are in one group: their labels have the same key, and one group has that key
SameGroupUpToCaseAndMargin ==
    LET labels == { Visited[n].area : n \in 1..Len(Visited) }
        bare == [a \in labels |-> Lower(Strip(a))] @@ <<>>
    IN  \A a, b \in labels :
          bare[a] = bare[b] =>
            /\ GroupsOf(a) = GroupsOf(b)
            /\ Cardinality(GroupsOf(a)) = 1

(***************************************************************************)
(* C15.  As claimed: facts whose raw area labels differ only in letter     *)
(* case or surrounding whitespace are placed in the same Area Group, and   *)
(* the display label of a group is the stripped raw label of the first     *)
(* fact visited for its key, inspection facts being visited before thermal *)
(* facts.  This fails for the group of the facts without an area, whose    *)
(* display label is "Not Available" whatever the first label was.          *)
(***************************************************************************)
C15_DisplayIsFirstStrippedLabel ==
    MergeReturned =>
      /\ SameGroupUpToCaseAndMargin
      /\ \A i \in 1..Len(Groups) :
           Groups[i].area = Strip(FirstVisited(Groups[i]).area)

(***************************************************************************)
(* C15, amended.  Facts whose raw area labels differ only in letter case   *)
(* or surrounding whitespace are placed in the same Area Group; the        *)
(* display label of a group is the stripped raw label of the first fact    *)
(* visited for its key (inspection facts before thermal facts), except     *)
(* that it is "Not Available" when that stripped label is empty or is      *)
(* "not available" in any letter case.                                     *)
(***************************************************************************)
C15_DisplayIsFirstStrippedLabelOrSentinel ==
    MergeReturned =>
      /\ SameGroupUpToCaseAndMargin
      /\ \A i \in 1..Len(Groups) :
           LET first == Strip(FirstVisited(Groups[i]).area)
           IN  Groups[i].area =
                 IF first = <<>> \/ Lower(first) = NotAvailableLower
                 THEN NotAvailable ELSE first

\* a group whose first visited label had surrounding whitespace and whose later label,
\* of a thermal fact or an inspection fact, is spelt differently: the first one shows
C15_Witness ==
    /\ MergeReturned
    /\ \E i \in 1..Len(Groups), n \in 1..Len(Visited) :
         /\ AreaKey(Visited[n].area) = GroupKey(Groups[i])
         /\ FirstVisited(Groups[i]).area # Strip(FirstVisited(Groups[i]).area)
         /\ Strip(Visited[n].area) # Strip(FirstVisited(Groups[i]).area)
         /\ Groups[i].area = Strip(FirstVisited(Groups[i]).area)
         /\ Groups[i].area # NotAvailable

(***************************************************************************)
(* Vocabulary of the properties of _normalize_area.                        *)
(***************************************************************************)
NormalizeAreaReturned == Returned("_normalize_area")

\* a label without its control characters, with its whitespace stripped and
\* collapsed, in lower case: what two labels share that differ only in these
LabelSkeleton(area) ==
    Lower(Strip(WsSub(SelectSeq(area, LAMBDA c : ~IsCtrl(c)))))

(***************************************************************************)
(* C16.  Any two area labels that differ only in letter case, in the       *)
(* amount or position of surrounding and repeated whitespace, or in the    *)
(* presence of control characters receive the same key from                *)
(* _normalize_area.                                                        *)
(***************************************************************************)
C16_SameKeyUpToCaseSpaceControl ==
    NormalizeAreaReturned =>
      \A other \in AreaLabels :
        LabelSkeleton(other) = LabelSkeleton(call.area) =>
          _normalize_area(other) = ret

(***************************************************************************)
(* C17.  _normalize_area returns the reserved key for the labels that are  *)
(* empty, whitespace-only or "not available" in any letter case, and for   *)
(* no other label.                                                         *)
(***************************************************************************)
C17_ReservedKeyOnlyForMissingArea ==
    NormalizeAreaReturned =>
      ( ret = NotAvailableKey
          <=> \/ Strip(call.area) = <<>>
              \/ Lower(Strip(call.area)) = NotAvailableLower )

(***************************************************************************)
(* Vocabulary of the partition properties.                                 *)
(***************************************************************************)
\* the normalized area labels of the input facts
InputKeys == { AreaKey(Visited[n].area) : n \in 1..Len(Visited) }

\* the display labels of the output
DisplayLabels == { Groups[i].area : i \in 1..Len(Groups) }

(***************************************************************************)
(* C18.  As claimed: the output has one Area Group per distinct normalized *)
(* area label of the input facts, and the set of the display labels of the *)
(* output is the set of the normalized area labels of the input.  This     *)
(* fails because a display label keeps the letter case of the raw label.   *)
(***************************************************************************)
C18_DisplayLabelsAreInputKeys ==
    MergeReturned =>
      /\ Len(Groups) = Cardinality(InputKeys)
      /\ DisplayLabels = InputKeys

(***************************************************************************)
(* C18, amended.  The output has exactly one Area Group per distinct       *)
(* normalized area label of the input facts: the display labels of the     *)
(* groups normalize to pairwise different keys, and the set of these keys  *)
(* is the set of the normalized area labels of the input.                  *)
(***************************************************************************)
C18_OneGroupPerInputKey ==
    MergeReturned =>
      /\ Len(Groups) = Cardinality(InputKeys)
      /\ { GroupKey(Groups[i]) : i \in 1..Len(Groups) } = InputKeys
      /\ \A i, j \in 1..Len(Groups) :
           GroupKey(Groups[i]) = GroupKey(Groups[j]) => i = j

\* two groups, one of them holding facts with differently written labels, its
\* display label being none of the normalized labels
C18_Witness ==
    /\ MergeReturned
    /\ Len(Groups) = 2
    /\ \E m, n \in 1..Len(Visited) :
         /\ Visited[m].area # Visited[n].area
         /\ AreaKey(Visited[m].area) = AreaKey(Visited[n].area)
    /\ DisplayLabels \ InputKeys # {}

(***************************************************************************)
(* C19.  In every Area Group of every output, conflict_detected is true if *)
(* and only if the conflicts list of the group is non-empty, and every     *)
(* Conflict record has conflict_detected = true.                           *)
(***************************************************************************)
C19_FlagIffConflicts ==
    MergeReturned =>
      \A i \in 1..Len(Groups) :
        /\ Groups[i].conflict_detected = (Groups[i].conflicts # <<>>)
        /\ \A k \in 1..Len(Groups[i].conflicts) :
             Groups[i].conflicts[k].conflict_detected = TRUE

\* an output with a group that has a conflict and is flagged, and a group that holds
\* facts of both sources, has no conflict and is not flagged
C19_Witness ==
    /\ MergeReturned
    /\ \E i, j \in 1..Len(Groups) :
         /\ Groups[i].conflicts # <<>>
         /\ Groups[i].conflict_detected = TRUE
         /\ Groups[j].conflicts = <<>>
         /\ Groups[j].inspection_facts # <<>>
         /\ Groups[j].thermal_facts # <<>>
         /\ Groups[j].conflict_detected = FALSE

(***************************************************************************)
(* C20.  Every emitted Conflict carries the Evidence record of one         *)
(* inspection fact of its group as inspection_evidence and the Evidence    *)
(* record of one thermal fact of its group as thermal_evidence, both       *)
(* present, and its two statements are the projected statements of those   *)
(* same two facts.                                                         *)
(***************************************************************************)
C20_ConflictCarriesBothEvidences ==
    MergeReturned =>
      \A i \in 1..Len(Groups) :
        \A k \in 1..Len(Groups[i].conflicts) :
          LET c == Groups[i].conflicts[k]
          IN  /\ DOMAIN c.inspection_evidence = {"page_numbers", "quote"}
              /\ DOMAIN c.thermal_evidence = {"page_numbers", "quote"}
              /\ \E a \in 1..Len(Groups[i].inspection_facts),
                    b \in 1..Len(Groups[i].thermal_facts) :
                   LET inf == Groups[i].inspection_facts[a]
                       thf == Groups[i].thermal_facts[b]
                   IN  /\ c.inspection_evidence = inf.evidence
                       /\ c.inspection_statement = _inspection_statement(inf)
                       /\ c.thermal_evidence = thf.evidence
                       /\ c.thermal_statement = _thermal_statement(thf)

\* a Conflict between an inspection fact whose text fields are all "Not Available"
\* and a thermal fact whose suspected_issue is "Not Available", with their evidences
C20_Witness ==
    /\ MergeReturned
    /\ \E i \in 1..Len(Groups) :
         \E a \in 1..Len(Groups[i].inspection_facts),
            b \in 1..Len(Groups[i].thermal_facts),
            k \in 1..Len(Groups[i].conflicts) :
           LET inf == Groups[i].inspection_facts[a]
               thf == Groups[i].thermal_facts[b]
           IN  /\ inf.observation = NotAvailable
               /\ thf.suspected_issue = NotAvailable
               /\ inf.evidence # thf.evidence
               /\ Groups[i].conflicts[k].inspection_evidence = inf.evidence
               /\ Groups[i].conflicts[k].thermal_evidence = thf.evidence

(***************************************************************************)
(* Vocabulary of the properties of run_merge_layer.                        *)
(***************************************************************************)
InRun == call.fn = "run_merge_layer"
RunRaised == InRun /\ pc = "raise"
RunReturned == InRun /\ pc = "return"
\* load_facts_docs has returned
RunLoaded == InRun /\ pc \in {"merge", "write", "return"}

Malformed(file) == file.kind \in {"bad_json", "bad_schema"}

\* an optional document with None and the document of zero facts exchanged
AbsentForEmpty(doc, empty) ==
    IF doc = {} THEN {empty}
    ELSE IF FactsOf(doc) = <<>> THEN {}
    ELSE doc

(***************************************************************************)
(* C21.  An absent input is not an error.  load_facts_docs returns None    *)
(* for a facts file that does not exist and raises only for a malformed    *)
(* file; merge_and_dedupe returns for None what it returns for a document  *)
(* of that source with zero facts; and when neither source has a fact the  *)
(* output has zero Area Groups.                                            *)
(***************************************************************************)
C21_AbsentInputIsNoError ==
    /\ RunLoaded =>
         /\ world.inspection_facts.kind = "absent" => frame.inspection_doc = {}
         /\ world.thermal_facts.kind = "absent" => frame.thermal_doc = {}
    /\ RunRaised =>
         Malformed(world.inspection_facts) \/ Malformed(world.thermal_facts)
    /\ MergeReturned =>
         /\ ret = merge_and_dedupe(
                    AbsentForEmpty(call.inspection, InspectionFactsDoc(<<>>)),
                    AbsentForEmpty(call.thermal, ThermalFactsDoc(<<>>)),
                    Threshold)
         /\ (InFacts("inspection") = <<>> /\ InFacts("thermal") = <<>>)
              => Groups = <<>>

\* example scenario 3 through the files: an inspection file with zero facts and no
\* thermal file; the run returns and the file written has zero Area Groups
C21_Witness ==
    /\ RunReturned
    /\ world.inspection_facts = JsonFile(InspectionFactsDoc(<<>>))
    /\ world.thermal_facts = AbsentFile
    /\ frame.thermal_doc = {}
    /\ world.merged_area_data = JsonFile([merged_areas |-> <<>>])

\* the first of the two facts files that cannot be loaded, in loading order
FirstMalformed ==
    IF Malformed(world.inspection_facts) THEN world.inspection_facts
    ELSE world.thermal_facts

\* the complete Merged Dataset of the documents the two files hold
MergedOfFiles ==
    merge_and_dedupe(LoadFile(world.inspection_facts).doc,
                     LoadFile(world.thermal_facts).doc,
                     call.similarity_threshold)

(***************************************************************************)
(* C22.  run_merge_layer has no partial-failure mode.  When a facts file   *)
(* that exists is malformed JSON or fails validation, the run ends by      *)
(* raising the loading error of that file and merged_area_data.json is     *)
(* never written; otherwise the run returns having written the file once.  *)
(* The file changes in one step only, the write that follows the           *)
(* completed merge, and what is written is the complete Merged Dataset.    *)
(***************************************************************************)
C22_NoPartialFailure ==
    /\ [](InRun /\ (Malformed(world.inspection_facts)
                      \/ Malformed(world.thermal_facts))
            => /\ pc \notin {"merge", "write", "return"}
               /\ world.writes = 0
               /\ pc = "raise" => ret = LoadFile(FirstMalformed).exception)
    /\ [](RunRaised => Malformed(world.inspection_facts)
                         \/ Malformed(world.thermal_facts))
    /\ [](RunReturned => /\ world.writes = 1
                         /\ world.merged_area_data = JsonFile(MergedOfFiles)
                         /\ ret = OutFileName)
    /\ [][ (InRun /\ (world'.merged_area_data # world.merged_area_data
                        \/ world'.writes # world.writes))
             => /\ pc = "write" /\ pc' = "return"
                /\ frame.merged = {MergedOfFiles}
                /\ world'.merged_area_data = JsonFile(MergedOfFiles)
                /\ world'.writes = 1 ]_vars

\* a run whose thermal file fails validation after the inspection file was loaded:
\* it raised the validation error and the output file of an earlier run is intact
C22_Witness ==
    /\ RunRaised
    /\ world.inspection_facts.kind = "json"
    /\ world.thermal_facts = BadSchemaFile
    /\ ret = [exception |-> "ValidationError"]
    /\ world.merged_area_data = JsonFile([merged_areas |-> << MergedAreaEntry(AreaBath) >>])
    /\ world.writes = 0

(***************************************************************************)
(* Vocabulary of the properties of _similar.                               *)
(***************************************************************************)
SimilarReturned == Returned("_similar")

(***************************************************************************)
(* C23.  The similarity function is symmetric: _similar(a, b) is           *)
(* _similar(b, a) for all normalised statements, and so a list of two      *)
(* facts and the same list in the other order lose the same number of      *)
(* facts to de-duplication.                                                *)
(*                                                                         *)
(* SequenceMatcher aligns around the longest block that is leftmost in its *)
(* first argument, so the ratio depends on the order of the arguments:     *)
(* _similar("aaaba", "abaab") is 8/10 and _similar("abaab", "aaaba") is    *)
(* 6/10.  At the threshold 0.8 the list with "aaaba" first keeps both      *)
(* facts and the list with "abaab" first keeps one.                        *)
(***************************************************************************)
C23_SimilarSymmetric ==
    /\ SimilarReturned => ret = _similar(call.b, call.a)
    /\ (DedupeReturned /\ Len(call.facts) = 2)
         => Len(ret) = Len(_dedupe_facts(<<call.facts[2], call.facts[1]>>, call.kind,
                                         call.similarity_threshold))

(***************************************************************************)
(* Vocabulary of the properties of the statement projectors.               *)
(***************************************************************************)
InspectionStatementReturned == Returned("_inspection_statement")
ThermalStatementReturned == Returned("_thermal_statement")

\* what a text field contributes to the statement: nothing when it is empty or the
\* sentinel, itself otherwise
TextPart(text) == IF text = <<>> \/ text = NotAvailable THEN <<>> ELSE text

\* what a tri-state field contributes: nothing when not_mentioned, "name=value" otherwise
EnumPart(prefix, v) == IF v = "not_mentioned" THEN <<>> ELSE prefix \o EnumText(v)

\* what the readings contribute: "temps=" and "label:value" of every reading that has
\* a label or a value, "; " between them; nothing when no reading has either
RECURSIVE ReadingsText(_)
ReadingsText(readings) ==
    IF readings = <<>> THEN <<>>
    ELSE LET r == Head(readings)
             rest == ReadingsText(Tail(readings))
         IN  IF TextPart(r.label) = <<>> /\ TextPart(r.value) = <<>> THEN rest
             ELSE r.label \o <<58>> \o r.value
                  \o (IF rest = <<>> THEN <<>> ELSE TempsSep \o rest)

ReadingsPart(readings) ==
    IF ReadingsText(readings) = <<>> THEN <<>> ELSE TempsPrefix \o ReadingsText(readings)

\* the contributions glued left to right with " | ", the empty ones left out
RECURSIVE Glue(_, _)
Glue(acc, contributions) ==
    IF contributions = <<>> THEN acc
    ELSE LET c == Head(contributions)
         IN  Glue(IF c = <<>> THEN acc
                  ELSE IF acc = <<>> THEN c
                  ELSE acc \o PartSep \o c,
                  Tail(contributions))

(***************************************************************************)
(* C24.  The statement of a fact is its informative fields in a fixed      *)
(* order (inspection: observation, visible_issue, moisture_signs, notes;   *)
(* thermal: suspected_issue, thermal_anomaly, temperature readings,        *)
(* notes) with " | " between them; a field that is empty, "Not Available"  *)
(* or not_mentioned contributes nothing; with no informative field the     *)
(* statement is exactly "Not Available".  The statement is a function of   *)
(* the fact's fields alone.                                                *)
(***************************************************************************)
C24_StatementIsOrderedInformativeFields ==
    /\ InspectionStatementReturned =>
         LET f == call.f
             glued == Glue(<<>>, << TextPart(f.observation),
                                    TextPart(f.visible_issue),
                                    EnumPart(MoistureSignsPrefix, f.moisture_signs),
                                    TextPart(f.notes) >>)
         IN  ret = IF glued = <<>> THEN NotAvailable ELSE glued
    /\ ThermalStatementReturned =>
         LET f == call.f
             glued == Glue(<<>>, << TextPart(f.suspected_issue),
                                    EnumPart(ThermalAnomalyPrefix, f.thermal_anomaly),
                                    ReadingsPart(f.temperature_readings),
                                    TextPart(f.notes) >>)
         IN  ret = IF glued = <<>> THEN NotAvailable ELSE glued

\* a thermal fact with all four fields informative and one blank reading among three:
\* "leak | thermal_anomaly=yes | temps=Hot:Not Available; :wet | no damp"
C24_Witness ==
    /\ ThermalStatementReturned
    /\ call.f.suspected_issue = TxtLeak
    /\ call.f.thermal_anomaly = "yes"
    /\ call.f.temperature_readings = <<ReadingHotOnly, ReadingBlank, ReadingWetOnly>>
    /\ call.f.notes = TxtNoDamp
    /\ ret = TxtLeak \o PartSep \o ThermalAnomalyPrefix \o EnumText("yes") \o PartSep
             \o TempsPrefix \o TxtHot \o <<58>> \o NotAvailable \o TempsSep
             \o <<58>> \o TxtWet \o PartSep \o TxtNoDamp

\* the facts of a source that the caller's document holds after the call
FactsAfter(source) ==
    IF source = "inspection" THEN FactsOf(world.inspection) ELSE FactsOf(world.thermal)

(***************************************************************************)
(* C25.  Facts are read-only to the merge layer.  Every fact of an output  *)
(* list equals, field for field, a fact of the input document of that      *)
(* source whose area has the group's key; every fact _dedupe_facts returns *)
(* equals a fact of the list it was given; and after merge_and_dedupe      *)
(* returns the facts lists of the two input documents hold what they held  *)
(* at the call.                                                            *)
(***************************************************************************)
C25_FactsReadOnly ==
    /\ MergeReturned =>
         /\ \A i \in 1..Len(Groups) : \A source \in Sources :
              \A j \in 1..Len(ListOf(Groups[i], source)) :
                \E n \in 1..Len(InFacts(source)) :
                  /\ InFacts(source)[n] = ListOf(Groups[i], source)[j]
                  /\ AreaKey(InFacts(source)[n].area) = GroupKey(Groups[i])
         /\ \A source \in Sources : FactsAfter(source) = InFacts(source)
         /\ world.inspection = call.inspection
         /\ world.thermal = call.thermal
    /\ DedupeReturned =>
         \A j \in 1..Len(ret) : Occurs(ret[j], call.facts)

\* a merge of two inspection facts and two thermal facts that returned groups
\* holding facts of both sources
C25_Witness ==
    /\ MergeReturned
    /\ Len(InFacts("inspection")) = 2
    /\ Len(InFacts("thermal")) = 2
    /\ FactsAfter("inspection") = InFacts("inspection")
    /\ \E i \in 1..Len(Groups) :
         /\ Groups[i].inspection_facts # <<>>
         /\ Groups[i].thermal_facts # <<>>

(***************************************************************************)
(* C26.  Conflict detection runs on the de-duplicated lists: every         *)
(* Conflict of a group is the Conflict of a fact retained in the group's   *)
(* inspection list and a fact retained in its thermal list, and an input   *)
(* fact that the group's list does not retain is the inspection or thermal *)
(* side of no Conflict of the group.                                       *)
(***************************************************************************)
C26_ConflictsOnlyOfRetainedFacts ==
    MergeReturned =>
      \A i \in 1..Len(Groups) :
        LET g == Groups[i]
        IN  /\ \A k \in 1..Len(g.conflicts) :
                 \E a \in 1..Len(g.inspection_facts), b \in 1..Len(g.thermal_facts) :
                   g.conflicts[k] = MergeConflict(g.inspection_facts[a], g.thermal_facts[b])
            /\ \A n \in 1..Len(InFacts("inspection")) :
                 ~Occurs(InFacts("inspection")[n], g.inspection_facts)
                   => ~IsInspectionSide(g, InFacts("inspection")[n])
            /\ \A n \in 1..Len(InFacts("thermal")) :
                 ~Occurs(InFacts("thermal")[n], g.thermal_facts)
                   => ~IsThermalSide(g, InFacts("thermal")[n])

\* a group with a Conflict whose inspection list lost a fact that indicates no
\* moisture to de-duplication
C26_Witness ==
    /\ MergeReturned
    /\ \E i \in 1..Len(Groups) :
         /\ Groups[i].conflicts # <<>>
         /\ \E n \in 1..Len(InFacts("inspection")) :
              LET f == InFacts("inspection")[n]
              IN  /\ AreaKey(f.area) = GroupKey(Groups[i])
                  /\ _inspection_indicates_no_moisture(f)
                  /\ ~Occurs(f, Groups[i].inspection_facts)

\* the lists of a group as grouped, before de-duplication
GroupedEntry(g) == GroupFacts(call.inspection, call.thermal)[GroupKey(g)]

(***************************************************************************)
(* C27.  De-duplication never hides a conflict: the conflict_detected of   *)
(* every group is what conflict detection gives on the group's lists as    *)
(* they were before de-duplication.                                        *)
(*                                                                         *)
(* The statements "hairline crack | moisture_signs=yes" and "hairline      *)
(* crack | moisture_signs=no" are similar at 60/65, above 0.92: the second *)
(* fact, the only one indicating no moisture, is discarded as a duplicate  *)
(* of the first, and the conflict it has with a thermal leak anomaly of    *)
(* the same area is not reported.                                          *)
(***************************************************************************)
C27_DedupNeverHidesConflict ==
    MergeReturned =>
      \A i \in 1..Len(Groups) :
        Groups[i].conflict_detected
          = (ConflictLoop(GroupedEntry(Groups[i]).inspection_facts,
                          GroupedEntry(Groups[i]).thermal_facts) # <<>>)

\* the retained inspection facts of a group whose moisture_signs field is "yes"
RetainedYes(g) ==
    { g.inspection_facts[a] : a \in { b \in 1..Len(g.inspection_facts) :
                                        g.inspection_facts[b].moisture_signs = "yes" } }

InExtract == call.fn = "extract_document"
ExtractReturned == InExtract /\ pc = "return"
ExtractRaised == InExtract /\ pc = "raise"
\* num_pages of the call, and the pages whose task raises among those submitted
CallNumPages == NumPages(call.pdf_pages, call.max_pages)
FailingSubmitted == { i \in call.failing : i < CallNumPages }
\* some step of extract_document or of a worker process can be taken
ExtractCanStep ==
    ENABLED (ExtractSubmit \/ WorkerStart \/ WorkerFinish \/ CollectResult
             \/ ExtractRaise \/ ExtractReturn)

(***************************************************************************)
(* C29.  For num_pages >= 1, a document that extract_document returns      *)
(* holds the pages 1..num_pages in ascending page_number order, each once  *)
(* and each the page its own task built, whatever the order in which the   *)
(* tasks completed and were collected.  When the task of a submitted page  *)
(* raises, extract_document does not return: it ends by raising what one   *)
(* of the failing tasks raised.  Until it has returned or raised, a step   *)
(* can be taken.                                                           *)
(***************************************************************************)
C29_PagesInOrderOrRaise ==
    /\ ExtractReturned =>
         /\ CallNumPages >= 1
         /\ FailingSubmitted = {}
         /\ Len(ret.pages) = CallNumPages
         /\ \A k \in 1..CallNumPages :
              /\ ret.pages[k].page_number = k
              /\ ret.pages[k] = PageExtraction(k - 1)
    /\ (InExtract /\ CallNumPages >= 1 /\ FailingSubmitted # {}) => pc # "return"
    /\ (ExtractRaised /\ CallNumPages >= 1) =>
         /\ ret.exception = "PageTaskError"
         /\ ret.page_idx \in FailingSubmitted
    /\ (InExtract /\ CallNumPages >= 1 /\ pc \notin {"return", "raise"}) => ExtractCanStep

\* a document of five pages returned after the page of index 4 was collected first
C29_Witness ==
    /\ ExtractReturned
    /\ CallNumPages = 5
    /\ frame.pages_dict[1][1] = 4
    /\ ret.pages[5].page_number = 5

(***************************************************************************)
(* Vocabulary of the properties of _extract_with_retries.                  *)
(***************************************************************************)
InRetries == call.fn = "_extract_with_retries"
RetriesReturned == InRetries /\ pc = "return"
RetriesRaised == InRetries /\ pc = "raise"
\* the LLM calls made so far, and what each was answered
Calls == world.calls
\* the answer is a response the loop accepts: after the removal of code fences
\* it parses as JSON and validates
Accepted(answer) ==
    /\ answer # "api_error"
    /\ ParsesAsJson(StripFences(answer))
    /\ Validates(StripFences(answer))
\* the answer is a response the loop rejects
Rejected(answer) == answer # "api_error" /\ ~Accepted(answer)
RetriesCanStep == ENABLED (CheckApiKey \/ Attempt \/ RaiseExhausted)

(***************************************************************************)
(* C30.  As claimed: _extract_with_retries makes at most 5 LLM calls,      *)
(* returns the first response that parses and validates, never one that    *)
(* failed, and raises RuntimeError if and only if all 5 responses failed.  *)
(* This fails when GROQ_API_KEY is not set: RuntimeError is raised with no *)
(* call made.                                                              *)
(***************************************************************************)
C30_RuntimeErrorIffFiveFailures ==
    /\ InRetries => Len(Calls) <= MaxAttempts
    /\ RetriesReturned =>
         /\ Accepted(Calls[Len(Calls)])
         /\ \A j \in 1..(Len(Calls) - 1) : Rejected(Calls[j])
    /\ (RetriesRaised /\ ret.exception = "RuntimeError")
         <=> (InRetries /\ pc = "raise" /\ Len(Calls) = MaxAttempts
              /\ \A j \in 1..MaxAttempts : Rejected(Calls[j]))

(***************************************************************************)
(* C30, amended.  _extract_with_retries makes at most 5 LLM calls and      *)
(* ends: it can take a step until it has returned or raised.  It returns   *)
(* the model of the first response that, with a leading code-fence line    *)
(* and a trailing Fence line removed, parses as JSON and validates; that   *)
(* response is the last call made and every earlier one was rejected.  It  *)
(* raises RuntimeError if and only if GROQ_API_KEY is not set, with no     *)
(* call made, or all 5 responses were rejected; an error raised by the     *)
(* call to the LLM itself ends the function with that error.               *)
(***************************************************************************)
C30_AtMostFiveCallsFirstAcceptedWins ==
    /\ InRetries => Len(Calls) <= MaxAttempts
    /\ (InRetries /\ pc \notin {"return", "raise"}) => RetriesCanStep
    /\ RetriesReturned =>
         /\ Calls # <<>>
         /\ Accepted(Calls[Len(Calls)])
         /\ ret = [model |-> StripFences(Calls[Len(Calls)])[1]]
         /\ \A j \in 1..(Len(Calls) - 1) : Rejected(Calls[j])
    /\ RetriesRaised =>
         IF ret.exception = "RuntimeError"
         THEN \/ call.api_key = "" /\ Calls = <<>>
              \/ /\ call.api_key # ""
                 /\ Len(Calls) = MaxAttempts
                 /\ \A j \in 1..MaxAttempts : Rejected(Calls[j])
         ELSE /\ ret.exception = "APIError"
              /\ Calls # <<>>
              /\ Calls[Len(Calls)] = "api_error"
              /\ \A j \in 1..(Len(Calls) - 1) : Rejected(Calls[j])
    /\ (InRetries /\ call.api_key = "") => pc \in {"call", "raise"}
    /\ (InRetries /\ Len(Calls) = MaxAttempts
          /\ \A j \in 1..MaxAttempts : Rejected(Calls[j]))
         => pc \in {"exhausted", "raise"}

\* four rejected responses, then a fenced response accepted at the fifth call
C30_Witness ==
    /\ RetriesReturned
    /\ Len(Calls) = MaxAttempts
    /\ Calls[1] = <<ProseLine>>
    /\ Calls[2] = <<JsonBadSchemaLine>>
    /\ Calls[MaxAttempts] = <<FenceJson, JsonValidLine, Fence>>
    /\ ret = [model |-> JsonValidLine]
=============================================================================
